---- MODULE Spec2Model ----
(***************************************************************************)
(* Model of lottery_bot: the JSON-backed ticket store (StorageManager in   *)
(* lottery_bot/storage.py) and the admin callbacks that drive it           *)
(* (lottery_bot/handlers/admin.py).                                        *)
(*                                                                         *)
(* Python values are modelled as follows.  A dict keyed by purchase id     *)
(* (pending / approved / rejected) is a sequence of purchase records in    *)
(* insertion order, because Python dicts keep insertion order and          *)
(* list_pending / list_approved expose it.  A dict keyed by str(user_id)   *)
(* (users / user_tickets) is a function whose domain is the set of keys.   *)
(* A list is a sequence.  None is the string "None"; {} and [] are <<>>.   *)
(* Timestamps (created_at, resolved_at, first_seen, last_active) and the   *)
(* receipt reference are not part of the model.                            *)
(***************************************************************************)
EXTENDS Integers, Sequences, FiniteSets, TLC

\* ------------------------------------------------------------------ bounds
NumTickets == 3          \* total_tickets handed to StorageManager
MaxPurchases == 2        \* number of purchase ids uuid4 hands out in a run
NumUsers == 2            \* number of distinct Telegram users
MaxQty == 2              \* largest quantity passed to create_pending_purchase
NumTasks == 2            \* coroutines calling the store concurrently
NumCallbacks == 2        \* admin_decision callbacks in flight
MaxBackups == 1          \* backups the admin takes in a run
TicketPrice == 50000     \* Settings.ticket_price, the unit price of a ticket

Users == 1..NumUsers
PurchaseIds == 1..MaxPurchases
Tasks == 1..NumTasks
Callbacks == 1..NumCallbacks
Quantities == (-1)..MaxQty
None == "None"
\* the phone number a user shares as a contact: user 1 shares one, the
\* others decline (phone_number stays None)
Contact(u) == IF u = 1 THEN "+998" ELSE None
EmptyDict == << >>
EmptyList == << >>

VARIABLES
    data,       \* StorageManager._data
    disk,       \* the content of the state file written by _persist
    issued,     \* number of purchase ids uuid4 has produced so far
    lock,       \* StorageManager._lock: TRUE while held
    task,       \* per coroutine: where it is in a store call, and the call
    serial,     \* the store after the calls so far, run one after another
                \* in the order they took the lock
    cb,         \* per admin_decision callback: where the handler is
    notified,   \* per purchase id: decision messages sent to the buyer
    backup,     \* the backup document the admin holds, with the statistics
                \* shown when it was made
    reader,     \* a coroutine calling get_detailed_stats: where it is, and
                \* the snapshot it is about to return
    chat,       \* per user: the state of the buy conversation and the
                \* user's context.user_data
    modes       \* the admin's context.user_data: the input modes that are on

storeVars == <<data, disk, issued>>
lockVars == <<lock, task, serial>>
adminVars == <<cb, notified>>
dialogVars == <<chat, modes>>
maintVars == <<backup, reader, dialogVars>>
vars == <<data, disk, issued, lock, task, serial, cb, notified, backup, reader,
          chat, modes>>

\* --------------------------------------------------------- Python helpers
Range(s) == {s[i] : i \in 1..Len(s)}

Max(a, b) == IF a >= b THEN a ELSE b

\* username / full_name of a Telegram user (user.username, user.full_name):
\* user 1 has a username, the others have none
UserName(u) == IF u = 1 THEN "user" ELSE None
FullName(u) == "Name"

\* sorted(set(xs)) for a collection of integers
RECURSIVE SortedSeq(_)
SortedSeq(S) ==
    IF S = {} THEN << >>
    ELSE LET m == CHOOSE x \in S : \A y \in S : x <= y
         IN  <<m>> \o SortedSeq(S \ {m})

\* sorted(xs) for a list of integers: duplicates stay
RECURSIVE Sorted(_)
Sorted(s) ==
    IF s = << >> THEN << >>
    ELSE LET i == CHOOSE k \in 1..Len(s) : \A j \in 1..Len(s) : s[k] <= s[j]
             rest == [j \in 1..(Len(s) - 1) |-> IF j < i THEN s[j] ELSE s[j + 1]]
         IN  <<s[i]>> \o Sorted(rest)

IsSorted(s) == \A i \in 1..Len(s) : \A j \in 1..Len(s) : i < j => s[i] < s[j]

\* sum of f[x] over a finite set
RECURSIVE SumSet(_, _)
SumSet(S, f) ==
    IF S = {} THEN 0
    ELSE LET x == CHOOSE y \in S : TRUE
         IN  f[x] + SumSet(S \ {x}, f)

\* dict keyed by purchase id, in insertion order
Keys(d) == {d[i].purchase_id : i \in 1..Len(d)}
Has(d, id) == id \in Keys(d)
Get(d, id) == d[CHOOSE i \in 1..Len(d) : d[i].purchase_id = id]
\* d.pop(id, None): the dict without the key
Pop(d, id) == SelectSeq(d, LAMBDA p : p.purchase_id # id)
\* d[id] = p: a new key goes to the end, an existing key keeps its place
Put(d, id, p) ==
    IF Has(d, id)
    THEN [i \in 1..Len(d) |-> IF d[i].purchase_id = id THEN p ELSE d[i]]
    ELSE Append(d, p)

\* dict.get(key, default) on a dict keyed by user
GetOr(f, k, default) == IF k \in DOMAIN f THEN f[k] ELSE default
\* f[k] = v
Set(f, k, v) == [x \in (DOMAIN f) \cup {k} |-> IF x = k THEN v ELSE f[x]]
\* Python truthiness of an optional string
Truthy(v) == v # None /\ v # ""

\* ------------------------------------------------------------------ store
\* Settings.card_number, handed to StorageManager as default_card_number
DefaultCardNumber == "8600"
\* A message template is kept as the pieces str.format splits it into:
\* literal text, and replacement fields {name}, {name:s}, {name:d} and {}.
Text(s) == [kind |-> "text", text |-> s]
Field(name, spec) == [kind |-> "field", name |-> name, spec |-> spec]
AutoField == [kind |-> "auto"]

DEFAULT_START_TEMPLATE ==
    <<Text("Sovrin: "), Field("prize", ""),
      Text("Jami chipta: "), Field("total_tickets", ""),
      Text("Qolgan chipta: "), Field("remaining_tickets", ""),
      Text("Chipta narxi: "), Field("ticket_price", "")>>
DEFAULT_SUBSCRIPTION_MESSAGE ==
    <<Text("Kanallarga obuna bo'ling: "), Field("channels", "")>>
DEFAULT_GAME_INFO_MESSAGE ==
    <<Text("Sovrin: "), Field("prize", ""),
      Text("Jami chipta: "), Field("total_tickets", ""),
      Text("Sotilgan chiptalar: "), Field("sold_tickets", ""),
      Text("Qolgan chiptalar: "), Field("remaining_tickets", ""),
      Text("Chipta narxi: "), Field("ticket_price", "")>>

_default_payload ==
    [available_tickets |-> [i \in 1..NumTickets |-> i],
     pending |-> EmptyDict,
     approved |-> EmptyDict,
     rejected |-> EmptyDict,
     user_tickets |-> EmptyDict,
     users |-> EmptyDict,
     meta |-> [start_message |-> [text |-> DEFAULT_START_TEMPLATE, media |-> None],
               subscription_message |-> DEFAULT_SUBSCRIPTION_MESSAGE,
               manager_contact |-> "@menejer_1w",
               game_info_message |-> DEFAULT_GAME_INFO_MESSAGE],
     subscriptions |-> [enabled |-> FALSE, channels |-> EmptyList]]

\* dict.setdefault(key, default) on a dict keyed by strings
SetDefault(f, k, default) == IF k \in DOMAIN f THEN f ELSE Set(f, k, default)

\* _ensure_defaults fills in every key a payload lacks
_ensure_defaults(payload) ==
    LET p1 == SetDefault(payload, "available_tickets", [i \in 1..NumTickets |-> i])
        p2 == SetDefault(p1, "pending", EmptyDict)
        p3 == SetDefault(p2, "approved", EmptyDict)
        p4 == SetDefault(p3, "rejected", EmptyDict)
        p5 == SetDefault(p4, "user_tickets", EmptyDict)
        p6 == SetDefault(p5, "users", EmptyDict)
        p7 == SetDefault(p6, "meta", EmptyDict)
        m0 == p7.meta
        m1 == IF "start_message" \notin DOMAIN m0
              THEN Set(m0, "start_message",
                       [text |-> GetOr(m0, "start_template", DEFAULT_START_TEMPLATE),
                        media |-> None])
              ELSE Set(m0, "start_message",
                       SetDefault(SetDefault(m0.start_message, "text", DEFAULT_START_TEMPLATE),
                                  "media", None))
        m2 == SetDefault(m1, "subscription_message", DEFAULT_SUBSCRIPTION_MESSAGE)
        m3 == SetDefault(m2, "card_number", DefaultCardNumber)
        m4 == SetDefault(m3, "manager_contact", "@menejer_1w")
        m5 == SetDefault(m4, "game_info_message", DEFAULT_GAME_INFO_MESSAGE)
        p8 == SetDefault(Set(p7, "meta", m5), "subscriptions", EmptyDict)
        s1 == SetDefault(p8.subscriptions, "enabled", FALSE)
        s2 == SetDefault(s1, "channels", EmptyList)
    IN  Set(p8, "subscriptions", s2)

\* the state file: missing before the first run, else a JSON document
NoFile == [kind |-> "missing"]
JsonFile(doc) == [kind |-> "json", doc |-> doc]

\* _persist: json.dump of the whole payload.  Every value of _data is
\* JSON-native (string keys, lists, integers, strings, booleans, None), so
\* the document json.load reads back is the payload that was dumped.
_persist(payload) == JsonFile(payload)

\* _load: the payload read from the state file, with the pool tidied up, or
\* the default payload when there is no file yet
_load(file) ==
    IF file = NoFile THEN _default_payload
    ELSE Set(file.doc, "available_tickets",
             SortedSeq(Range(GetOr(file.doc, "available_tickets", EmptyList))))

\* StorageManager.__init__: _load, then _ensure_defaults on what was loaded
Construct(file) == _ensure_defaults(_load(file))

\* the record register_user and approve_purchase create for an unknown user
NewUserRecord(user_id, username, full_name, phone_number) ==
    [user_id |-> user_id,
     username |-> username,
     full_name |-> full_name,
     phone_number |-> phone_number,
     purchases |-> 0,
     total_tickets |-> 0,
     total_spent |-> 0,
     history |-> EmptyList]

\* The outcome of one store call: the new _data, the returned value,
\* whether the call raised, and whether it reached _persist.
Outcome(d, ret, raised, persisted) ==
    [data |-> d, ret |-> ret, raised |-> raised, persisted |-> persisted]

\* a registration that starts the record of a known user over
register_user_Recreate(d, user_id, username, full_name, phone_number) ==
    Outcome([d EXCEPT !.users = Set(d.users, user_id,
                                    NewUserRecord(user_id, username, full_name, phone_number))],
            None, FALSE, TRUE)

register_user(d, user_id, username, full_name, phone_number) ==
    LET record == GetOr(d.users, user_id, EmptyDict)
        updated ==
            IF record = EmptyDict
            THEN NewUserRecord(user_id, username, full_name, phone_number)
            ELSE [record EXCEPT
                    !.username = IF username # None THEN username ELSE @,
                    !.full_name = IF Truthy(full_name) THEN full_name ELSE @,
                    !.phone_number = IF Truthy(phone_number) THEN phone_number ELSE @]
    IN  Outcome([d EXCEPT !.users = Set(d.users, user_id, updated)], None, FALSE, TRUE)

\* a count of all tickets of the lottery, sold or not
remaining_tickets_Total(d) == NumTickets

remaining_tickets(d) == Len(d.available_tickets)

\* a create that checks the pool and refuses a quantity it cannot cover
create_pending_purchase_Checked(d, purchase_id, user_id, username, full_name, phone_number, quantity, ticket_price) ==
    LET payload == [purchase_id |-> purchase_id,
                    user_id |-> user_id,
                    username |-> username,
                    full_name |-> full_name,
                    phone_number |-> phone_number,
                    quantity |-> quantity,
                    ticket_price |-> ticket_price,
                    amount |-> ticket_price * quantity,
                    status |-> "pending"]
    IN  IF quantity > Len(d.available_tickets)
        THEN Outcome(d, None, TRUE, FALSE)
        ELSE Outcome([d EXCEPT !.pending = Put(d.pending, purchase_id, payload)],
                     purchase_id, FALSE, TRUE)

create_pending_purchase(d, purchase_id, user_id, username, full_name, phone_number, quantity, ticket_price) ==
    LET payload == [purchase_id |-> purchase_id,
                    user_id |-> user_id,
                    username |-> username,
                    full_name |-> full_name,
                    phone_number |-> phone_number,
                    quantity |-> quantity,
                    ticket_price |-> ticket_price,
                    amount |-> ticket_price * quantity,
                    status |-> "pending"]
    IN  Outcome([d EXCEPT !.pending = Put(d.pending, purchase_id, payload)],
                purchase_id, FALSE, TRUE)

is_pending(d, purchase_id) == Has(d.pending, purchase_id)

\* random.sample(population, k): every ordered choice of k distinct
\* elements; k < 0 or k > len(population) raises ValueError (no sample)
Sample(population, k) ==
    IF k < 0 \/ k > Len(population) THEN {}
    ELSE {s \in [1..k -> Range(population)] :
            \A i \in 1..k : \A j \in 1..k : i # j => s[i] # s[j]}

\* a pool update that takes out the first sampled ticket only
RemoveTickets_FirstOnly(available, tickets) ==
    SelectSeq(available, LAMBDA t : tickets = EmptyList \/ t # tickets[1])

\* for ticket in tickets: available.remove(ticket)
RemoveTickets(available, tickets) ==
    SelectSeq(available, LAMBDA t : t \notin Range(tickets))

\* a lookup that reads the pending purchase and leaves it in place
TakePending_Get(d, purchase_id) == d

\* self._data["pending"].pop(purchase_id, None): the store without the key
TakePending(d, purchase_id) == [d EXCEPT !.pending = Pop(@, purchase_id)]

\* a shortage test that lets every request through
Shortage_Never(available, quantity) == FALSE

\* if len(available) < quantity
Shortage(available, quantity) == Len(available) < quantity

\* an analytics update that adds the unit price instead of the amount
ApproveUserRecord_UnitPrice(users, purchase_id, purchase, tickets) ==
    LET uid == purchase.user_id
        base == GetOr(users, uid,
                      NewUserRecord(uid, purchase.username, purchase.full_name,
                                    purchase.phone_number))
    IN  [base EXCEPT
            !.purchases = @ + 1,
            !.total_tickets = @ + purchase.quantity,
            !.total_spent = @ + purchase.ticket_price,
            !.history = Append(@, [purchase_id |-> purchase_id,
                                   tickets |-> tickets,
                                   amount |-> purchase.amount,
                                   quantity |-> purchase.quantity])]

\* the user-analytics update of approve_purchase
ApproveUserRecord(users, purchase_id, purchase, tickets) ==
    LET uid == purchase.user_id
        base == GetOr(users, uid,
                      NewUserRecord(uid, purchase.username, purchase.full_name,
                                    purchase.phone_number))
        entry == [purchase_id |-> purchase_id,
                  tickets |-> tickets,
                  amount |-> purchase.amount,
                  quantity |-> purchase.quantity]
    IN  [base EXCEPT
            !.purchases = @ + 1,
            !.total_tickets = @ + purchase.quantity,
            !.total_spent = @ + purchase.amount,
            !.phone_number = IF Truthy(purchase.phone_number)
                             THEN purchase.phone_number ELSE @,
            !.history = Append(@, entry)]

\* the values random.sample can hand to approve_purchase(purchase_id) in
\* state d; <<>> stands in on the paths that never reach the call
SampleChoices(d, purchase_id) ==
    IF ~Has(d.pending, purchase_id) THEN {EmptyList}
    ELSE LET q == Get(d.pending, purchase_id).quantity
         IN  IF Shortage(d.available_tickets, q) THEN {EmptyList}
             ELSE IF Sample(d.available_tickets, q) = {} THEN {EmptyList}
             ELSE Sample(d.available_tickets, q)

\* an approve that does not put the purchase back when the pool is short
approve_purchase_Forgetful(d, purchase_id, tickets) ==
    IF ~Has(d.pending, purchase_id)
    THEN Outcome(d, [tickets |-> EmptyList, purchase |-> EmptyDict], FALSE, FALSE)
    ELSE
    LET purchase == Get(d.pending, purchase_id)
        popped == TakePending(d, purchase_id)
        quantity == purchase.quantity
        available == d.available_tickets
    IN  IF Shortage(available, quantity)
        THEN Outcome(popped, [tickets |-> EmptyList, purchase |-> EmptyDict],
                     FALSE, FALSE)
        ELSE IF Sample(available, quantity) = {}
        THEN \* random.sample raises ValueError after the pop
             Outcome(popped, None, TRUE, FALSE)
        ELSE
        LET uid == purchase.user_id
            resolved == [status |-> "approved", tickets |-> tickets] @@ purchase
            d2 == [popped EXCEPT
                     !.available_tickets = RemoveTickets(available, tickets),
                     !.user_tickets =
                         Set(@, uid, GetOr(@, uid, EmptyList) \o tickets),
                     !.approved = Put(@, purchase_id, resolved),
                     !.users = Set(@, uid,
                                   ApproveUserRecord(@, purchase_id, purchase, tickets))]
        IN  Outcome(d2, [tickets |-> tickets, purchase |-> resolved], FALSE, TRUE)

approve_purchase(d, purchase_id, tickets) ==
    IF ~Has(d.pending, purchase_id)
    THEN Outcome(d, [tickets |-> EmptyList, purchase |-> EmptyDict], FALSE, FALSE)
    ELSE
    LET purchase == Get(d.pending, purchase_id)
        popped == TakePending(d, purchase_id)
        quantity == purchase.quantity
        available == d.available_tickets
    IN  IF Shortage(available, quantity)
        THEN \* put it back and signal the caller to handle shortage
             Outcome([popped EXCEPT !.pending = Put(popped.pending, purchase_id, purchase)],
                     [tickets |-> EmptyList, purchase |-> EmptyDict], FALSE, FALSE)
        ELSE IF Sample(available, quantity) = {}
        THEN \* random.sample raises ValueError after the pop
             Outcome(popped, None, TRUE, FALSE)
        ELSE
        LET uid == purchase.user_id
            resolved == [status |-> "approved", tickets |-> tickets] @@ purchase
            d2 == [popped EXCEPT
                     !.available_tickets = RemoveTickets(available, tickets),
                     !.user_tickets =
                         Set(@, uid, GetOr(@, uid, EmptyList) \o tickets),
                     !.approved = Put(@, purchase_id, resolved),
                     !.users = Set(@, uid,
                                   ApproveUserRecord(@, purchase_id, purchase, tickets))]
        IN  Outcome(d2, [tickets |-> tickets, purchase |-> resolved], FALSE, TRUE)

\* a rejection that also counts as a purchase of the user
reject_purchase_Counted(d, purchase_id) ==
    IF ~Has(d.pending, purchase_id)
    THEN Outcome(d, EmptyDict, FALSE, FALSE)
    ELSE LET purchase == Get(d.pending, purchase_id)
             resolved == [status |-> "rejected"] @@ purchase
             uid == purchase.user_id
         IN  Outcome([d EXCEPT
                        !.pending = Pop(@, purchase_id),
                        !.rejected = Put(@, purchase_id, resolved),
                        !.users = IF uid \in DOMAIN @
                                  THEN [@ EXCEPT ![uid].purchases = @ + 1]
                                  ELSE @],
                     resolved, FALSE, TRUE)

\* a rejection that files the purchase under rejected without the pop
reject_purchase_NoPop(d, purchase_id) ==
    IF ~Has(d.pending, purchase_id)
    THEN Outcome(d, EmptyDict, FALSE, FALSE)
    ELSE LET resolved == [status |-> "rejected"] @@ Get(d.pending, purchase_id)
         IN  Outcome([d EXCEPT !.rejected = Put(@, purchase_id, resolved)],
                     resolved, FALSE, TRUE)

reject_purchase(d, purchase_id) ==
    IF ~Has(d.pending, purchase_id)
    THEN Outcome(d, EmptyDict, FALSE, FALSE)
    ELSE
    LET purchase == Get(d.pending, purchase_id)
        popped == TakePending(d, purchase_id)
        resolved == [status |-> "rejected"] @@ purchase
    IN  Outcome([popped EXCEPT !.rejected = Put(@, purchase_id, resolved)],
                resolved, FALSE, TRUE)

\* a return that puts the tickets in front of the pool
ReturnTickets_Front(available, tickets) == tickets \o available

\* a return that puts the tickets at the end of the pool and leaves it so
ReturnTickets_Unsorted(available, tickets) == available \o tickets

\* available.extend(tickets); available[:] = sorted(set(available))
ReturnTickets(available, tickets) ==
    SortedSeq(Range(available) \cup Range(tickets))

\* a bucket update that drops every ticket the user owns
RemoveFromBucket_ClearAll(user_tickets, uid, tickets) ==
    Set(user_tickets, uid, EmptyList)

\* [t for t in user_bucket if t not in tickets], only for a non-empty bucket
RemoveFromBucket(user_tickets, uid, tickets) ==
    LET user_bucket == GetOr(user_tickets, uid, EmptyList)
    IN  IF user_bucket # EmptyList
        THEN Set(user_tickets, uid,
                 SelectSeq(user_bucket, LAMBDA t : t \notin Range(tickets)))
        ELSE user_tickets

\* an analytics update that takes one ticket off whatever the purchase held
CancelUserRecord_OneTicket(users, purchase_id, purchase, tickets) ==
    LET uid == purchase.user_id
    IN  IF uid \notin DOMAIN users THEN users
        ELSE Set(users, uid,
                 [users[uid] EXCEPT
                    !.purchases = Max(0, @ - 1),
                    !.total_tickets = Max(0, @ - 1),
                    !.total_spent = Max(0, @ - purchase.amount),
                    !.history = Append(@, [purchase_id |-> purchase_id,
                                           tickets |-> tickets,
                                           amount |-> purchase.amount,
                                           quantity |-> purchase.quantity,
                                           status |-> "cancelled"])])

\* a cancellation that leaves the user's purchase count as it is
CancelUserRecord_KeepCount(users, purchase_id, purchase, tickets) ==
    LET uid == purchase.user_id
    IN  IF uid \notin DOMAIN users THEN users
        ELSE Set(users, uid,
                 [users[uid] EXCEPT
                    !.total_tickets = Max(0, @ - Len(tickets)),
                    !.total_spent = Max(0, @ - purchase.amount),
                    !.history = Append(@, [purchase_id |-> purchase_id,
                                           tickets |-> tickets,
                                           amount |-> purchase.amount,
                                           quantity |-> purchase.quantity,
                                           status |-> "cancelled"])])

\* a cancellation that marks the approval's entry instead of appending one
CancelUserRecord_Rewrite(users, purchase_id, purchase, tickets) ==
    LET uid == purchase.user_id
    IN  IF uid \notin DOMAIN users THEN users
        ELSE Set(users, uid,
                 [users[uid] EXCEPT
                    !.purchases = Max(0, @ - 1),
                    !.total_tickets = Max(0, @ - Len(tickets)),
                    !.total_spent = Max(0, @ - purchase.amount),
                    !.history =
                        [k \in 1..Len(@) |->
                            IF @[k].purchase_id = purchase_id
                            THEN [status |-> "cancelled"] @@ @[k]
                            ELSE @[k]]])

\* the user-analytics update of cancel_approved_purchase
CancelUserRecord(users, purchase_id, purchase, tickets) ==
    LET uid == purchase.user_id
    IN  IF uid \notin DOMAIN users THEN users
        ELSE LET entry == [purchase_id |-> purchase_id,
                           tickets |-> tickets,
                           amount |-> purchase.amount,
                           quantity |-> purchase.quantity,
                           status |-> "cancelled"]
             IN  Set(users, uid,
                     [users[uid] EXCEPT
                        !.purchases = Max(0, @ - 1),
                        !.total_tickets = Max(0, @ - Len(tickets)),
                        !.total_spent = Max(0, @ - purchase.amount),
                        !.history = Append(@, entry)])

\* a cancel whose pop has no default: an absent id raises KeyError
cancel_approved_purchase_KeyError(d, purchase_id) ==
    IF ~Has(d.approved, purchase_id)
    THEN Outcome(d, None, TRUE, FALSE)
    ELSE
    LET purchase == Get(d.approved, purchase_id)
        tickets == purchase.tickets
        uid == purchase.user_id
        d2 == [d EXCEPT
                 !.approved = Pop(@, purchase_id),
                 !.available_tickets = ReturnTickets(@, tickets),
                 !.user_tickets = RemoveFromBucket(@, uid, tickets),
                 !.users = CancelUserRecord(@, purchase_id, purchase, tickets)]
    IN  Outcome(d2, [status |-> "cancelled"] @@ purchase, FALSE, TRUE)

cancel_approved_purchase(d, purchase_id) ==
    IF ~Has(d.approved, purchase_id)
    THEN Outcome(d, EmptyDict, FALSE, FALSE)
    ELSE
    LET purchase == Get(d.approved, purchase_id)
        tickets == purchase.tickets
        uid == purchase.user_id
        d2 == [d EXCEPT
                 !.approved = Pop(@, purchase_id),
                 !.available_tickets = ReturnTickets(@, tickets),
                 !.user_tickets = RemoveFromBucket(@, uid, tickets),
                 !.users = CancelUserRecord(@, purchase_id, purchase, tickets)]
    IN  Outcome(d2, [status |-> "cancelled"] @@ purchase, FALSE, TRUE)

\* a read that returns the bucket in the order the tickets were assigned
get_user_tickets_Unsorted(d, user_id) ==
    GetOr(d.user_tickets, user_id, EmptyList)

get_user_tickets(d, user_id) ==
    Sorted(GetOr(d.user_tickets, user_id, EmptyList))

\* ------------------------------------------------------------ shorthands
AllTickets == 1..NumTickets
Pool(d) == Range(d.available_tickets)
Bucket(d, u) == GetOr(d.user_tickets, u, EmptyList)
\* the counters of a user, 0 for a user without a record
Counter(d, u, field) == IF u \in DOMAIN d.users THEN d.users[u][field] ELSE 0
EmptyApproval == [tickets |-> EmptyList, purchase |-> EmptyDict]
\* the ids uuid4 has handed out
Issued == 1..issued
\* uuid4().hex: an id never handed out before
uuid4 == issued + 1

\* ---------------------------------------------------------------- actions
\* One store call, start to finish: the new _data and the write-through of
\* _persist when the call reaches it.
Call(out) ==
    /\ data' = out.data
    /\ disk' = IF out.persisted THEN _persist(out.data) ELSE disk

NoCall == [op |-> "none"]
IdleReader == [pc |-> "idle"]
NoBackup == [taken |-> FALSE, count |-> 0]
IdleTask == [pc |-> "idle", call |-> NoCall]
IdleCallback == [pc |-> "idle", action |-> "none", purchase_id |-> 0,
                 checked |-> FALSE, resolved |-> FALSE]
\* a user outside the buy conversation with an empty user_data; validated
\* is the set of quantities receive_quantity accepted since the user last
\* came in through the entry point
\* came in through the entry point, cancelled tells that the cancel handler
\* has run since the user last had a quantity accepted
NoConversation ==
    [state |-> "END", user_data |-> EmptyDict, validated |-> {}, cancelled |-> FALSE]
\* no input mode is on: the admin's user_data holds none of the mode keys
NoModes == EmptyDict

Init ==
    /\ data = Construct(NoFile)
    /\ disk = _persist(_default_payload)
    /\ issued = 0
    /\ lock = FALSE
    /\ task = [t \in Tasks |-> IdleTask]
    /\ serial = Construct(NoFile)
    /\ cb = [c \in Callbacks |-> IdleCallback]
    /\ notified = [id \in PurchaseIds |-> 0]
    /\ backup = NoBackup
    /\ reader = IdleReader
    /\ chat = [u \in Users |-> NoConversation]
    /\ modes = NoModes

\* register_user(user.id, user.username, user.full_name[, phone_number])
RegisterUser ==
    \E u \in Users : \E phone \in {None, Contact(u)} :
        /\ Call(register_user(data, u, UserName(u), FullName(u), phone))
        /\ UNCHANGED <<maintVars, issued, lockVars, adminVars>>

\* uuid4().hex is a fresh id: the next unused one
CreatePendingPurchase ==
    /\ issued < MaxPurchases
    /\ \E u \in Users : \E q \in Quantities :
        /\ Call(create_pending_purchase(data, uuid4, u, UserName(u),
                                        FullName(u), Contact(u), q, TicketPrice))
        /\ issued' = issued + 1
        /\ UNCHANGED <<maintVars, lockVars, adminVars>>

ApprovePurchase ==
    \E id \in PurchaseIds : \E tickets \in SampleChoices(data, id) :
        /\ Call(approve_purchase(data, id, tickets))
        /\ UNCHANGED <<maintVars, issued, lockVars, adminVars>>

RejectPurchase ==
    \E id \in PurchaseIds :
        /\ Call(reject_purchase(data, id))
        /\ UNCHANGED <<maintVars, issued, lockVars, adminVars>>

CancelApprovedPurchase ==
    \E id \in PurchaseIds :
        /\ Call(cancel_approved_purchase(data, id))
        /\ UNCHANGED <<maintVars, issued, lockVars, adminVars>>

Next ==
    \/ RegisterUser
    \/ CreatePendingPurchase
    \/ ApprovePurchase
    \/ RejectPurchase
    \/ CancelApprovedPurchase

\* the store driven by one caller at a time
Spec == Init /\ [][Next]_vars

\* ------------------------------------------------- concurrent store calls
\* Coroutines call the store concurrently.  Each call is
\*     async with self._lock:  <body without an await>
\* so a coroutine takes the lock (waiting while it is held), runs the body
\* and releases the lock on the way out, also on the early returns and on
\* an exception.  The call and its arguments, the id uuid4 will produce
\* and the value random.sample will produce are fixed when the coroutine
\* takes the lock.

\* the calls a coroutine can make in the current state
StoreCalls ==
    UNION {{[op |-> "register_user", user_id |-> u, phone_number |-> phone] :
                phone \in {None, Contact(u)}} : u \in Users}
    \cup {[op |-> "create_pending_purchase", purchase_id |-> issued + 1,
            user_id |-> u, quantity |-> q] :
        u \in {v \in Users : issued < MaxPurchases}, q \in Quantities}
    \cup UNION {{[op |-> "approve_purchase", purchase_id |-> id, tickets |-> tickets] :
                    tickets \in SampleChoices(data, id)} : id \in PurchaseIds}
    \cup {[op |-> o, purchase_id |-> id] :
        o \in {"reject_purchase", "cancel_approved_purchase"}, id \in PurchaseIds}

\* the body of a store call applied to the store d
Apply(d, call) ==
    CASE call.op = "register_user" ->
            register_user(d, call.user_id, UserName(call.user_id),
                          FullName(call.user_id), call.phone_number)
      [] call.op = "create_pending_purchase" ->
            create_pending_purchase(d, call.purchase_id, call.user_id,
                                    UserName(call.user_id), FullName(call.user_id),
                                    Contact(call.user_id), call.quantity, TicketPrice)
      [] call.op = "approve_purchase" ->
            approve_purchase(d, call.purchase_id, call.tickets)
      [] call.op = "reject_purchase" -> reject_purchase(d, call.purchase_id)
      [] call.op = "cancel_approved_purchase" ->
            cancel_approved_purchase(d, call.purchase_id)

\* a lock that is handed out while it is held
LockFree_Always(locked) == TRUE

\* asyncio.Lock.acquire proceeds only while the lock is not held
LockFree(locked) == ~locked

\* async with self._lock: __aenter__
Acquire(t) ==
    /\ task[t].pc = "idle"
    /\ LockFree(lock)
    /\ \E call \in StoreCalls :
        /\ task' = [task EXCEPT ![t] = [pc |-> "critical", call |-> call]]
        /\ serial' = Apply(serial, call).data
        /\ issued' = IF call.op = "create_pending_purchase" THEN issued + 1 ELSE issued
    /\ lock' = TRUE
    /\ UNCHANGED <<maintVars, data, disk, adminVars>>

\* the body of the call, up to its return or raise
Body(t) ==
    /\ task[t].pc = "critical"
    /\ Call(Apply(data, task[t].call))
    /\ task' = [task EXCEPT ![t].pc = "exit"]
    /\ UNCHANGED <<maintVars, issued, lock, serial, adminVars>>

\* a lock released at the end of the body only: the approve_purchase that
\* returns or raises before it has sampled tickets leaves it held
Release_EndOfBody(t) ==
    /\ task[t].pc = "exit"
    /\ lock' = (task[t].call.op = "approve_purchase"
                    /\ task[t].call.tickets = EmptyList)
    /\ task' = [task EXCEPT ![t] = IdleTask]
    /\ UNCHANGED <<maintVars, storeVars, serial, adminVars>>

\* async with self._lock: __aexit__
Release(t) ==
    /\ task[t].pc = "exit"
    /\ lock' = FALSE
    /\ task' = [task EXCEPT ![t] = IdleTask]
    /\ UNCHANGED <<maintVars, storeVars, serial, adminVars>>

LockNext == \E t \in Tasks : Acquire(t) \/ Body(t) \/ Release(t)

SpecLock == Init /\ [][LockNext]_vars

\* ------------------------------------------------ admin_decision callbacks
\* admin_decision(update, context) for the callback data "<action>:<id>".
\* The handler suspends at every await; between two awaits other
\* callbacks run.  Each store call is one step: it runs under the lock.

\* the admin presses a button of the admin message of an issued purchase;
\* await query.answer(), the admin check, the split of query.data
AdminStart(c) ==
    /\ cb[c].pc = "idle"
    /\ \E action \in {"approve", "reject"} : \E id \in Issued :
        cb' = [cb EXCEPT ![c] = [pc |-> "is_pending", action |-> action,
                                 purchase_id |-> id, checked |-> FALSE,
                                 resolved |-> FALSE]]
    /\ UNCHANGED <<maintVars, storeVars, lockVars, notified>>

\* if not await storage.is_pending(purchase_id): edit the message, return
AdminIsPending(c) ==
    /\ cb[c].pc = "is_pending"
    /\ cb' = IF is_pending(data, cb[c].purchase_id)
             THEN [cb EXCEPT ![c].pc = "decide", ![c].checked = TRUE]
             ELSE [cb EXCEPT ![c].pc = "done"]
    /\ UNCHANGED <<maintVars, storeVars, lockVars, notified>>

\* the call resolved the purchase: it took it out of pending for good
Resolves(d, out, id) == is_pending(d, id) /\ ~out.raised /\ ~is_pending(out.data, id)

\* tickets, purchase = await storage.approve_purchase(purchase_id);
\* "if not tickets" alerts the admin and returns, a raise ends the handler
AdminApprove(c) ==
    /\ cb[c].pc = "decide"
    /\ cb[c].action = "approve"
    /\ \E tickets \in SampleChoices(data, cb[c].purchase_id) :
        LET out == approve_purchase(data, cb[c].purchase_id, tickets)
        IN  /\ Call(out)
            /\ cb' = [cb EXCEPT
                        ![c].resolved = Resolves(data, out, cb[c].purchase_id),
                        ![c].pc = IF out.raised \/ out.ret.tickets = EmptyList
                                  THEN "done" ELSE "notify"]
    /\ UNCHANGED <<maintVars, issued, lockVars, notified>>

\* purchase = await storage.reject_purchase(purchase_id);
\* "if not purchase" edits the message and returns
AdminReject(c) ==
    /\ cb[c].pc = "decide"
    /\ cb[c].action = "reject"
    /\ LET out == reject_purchase(data, cb[c].purchase_id)
       IN  /\ Call(out)
           /\ cb' = [cb EXCEPT
                       ![c].resolved = Resolves(data, out, cb[c].purchase_id),
                       ![c].pc = IF out.ret = EmptyDict THEN "done" ELSE "notify"]
    /\ UNCHANGED <<maintVars, issued, lockVars, notified>>

\* await _edit_admin_message(...); await context.bot.send_message(
\*     chat_id=purchase["user_id"], ...): the buyer is told the decision
AdminNotify(c) ==
    /\ cb[c].pc = "notify"
    /\ notified' = [notified EXCEPT ![cb[c].purchase_id] = @ + 1]
    /\ cb' = [cb EXCEPT ![c].pc = "done"]
    /\ UNCHANGED <<maintVars, storeVars, lockVars>>

\* the edit or the send raises TelegramError: the handler ends there
AdminNotifyFails(c) ==
    /\ cb[c].pc = "notify"
    /\ cb' = [cb EXCEPT ![c].pc = "done"]
    /\ UNCHANGED <<maintVars, storeVars, lockVars, notified>>

AdminNext ==
    \/ CreatePendingPurchase
    \/ CancelApprovedPurchase
    \/ \E c \in Callbacks :
          \/ AdminStart(c)
          \/ AdminIsPending(c)
          \/ AdminApprove(c)
          \/ AdminReject(c)
          \/ AdminNotify(c)
          \/ AdminNotifyFails(c)

SpecAdmin == Init /\ [][AdminNext]_vars

\* --------------------------------------------------------------- claims
\* C1: at every point the size of the available pool plus the sizes of the
\* ticket lists of all approved purchases is the configured total, no
\* ticket is in two approved purchases, and none is both in the pool and
\* in an approved purchase.
C1_TicketConservation ==
    LET ap == data.approved
    IN  /\ Len(data.available_tickets)
             + SumSet(1..Len(ap), [i \in 1..Len(ap) |-> Len(ap[i].tickets)])
           = NumTickets
        /\ \A i \in 1..Len(ap) : \A j \in 1..Len(ap) :
              i # j => Range(ap[i].tickets) \cap Range(ap[j].tickets) = {}
        /\ \A i \in 1..Len(ap) : Pool(data) \cap Range(ap[i].tickets) = {}

\* two approved purchases hold tickets at once
C1_Witness ==
    /\ Len(data.approved) = 2
    /\ \A i \in 1..2 : data.approved[i].tickets # EmptyList

\* C2: approve_purchase on a pending purchase whose quantity exceeds the
\* pool size returns the empty result, keeps the purchase pending and
\* leaves the pool, the approved collection, the owned tickets and the
\* user records as they were; and an approval that returns a result never
\* carries fewer tickets than the purchase's quantity.
C2_NoPartialFulfilment ==
    \A id \in Keys(data.pending) : \A tickets \in SampleChoices(data, id) :
        LET purchase == Get(data.pending, id)
            out == approve_purchase(data, id, tickets)
        IN  /\ purchase.quantity > remaining_tickets(data) =>
                /\ ~out.raised
                /\ out.ret = EmptyApproval
                /\ Has(out.data.pending, id)
                /\ Get(out.data.pending, id) = purchase
                /\ out.data.available_tickets = data.available_tickets
                /\ out.data.approved = data.approved
                /\ out.data.user_tickets = data.user_tickets
                /\ out.data.users = data.users
            /\ (~out.raised /\ Has(out.data.approved, id)) =>
                /\ Len(out.ret.tickets) >= purchase.quantity
                /\ Len(Get(out.data.approved, id).tickets) >= purchase.quantity
                /\ remaining_tickets(out.data)
                      = remaining_tickets(data) - Len(out.ret.tickets)

\* a pending purchase asks for more tickets than an earlier approval left
C2_Witness ==
    /\ Len(data.approved) > 0
    /\ \E id \in Keys(data.pending) :
          /\ Get(data.pending, id).quantity > remaining_tickets(data)
          /\ remaining_tickets(data) > 0

\* C3: a successful approve_purchase of a pending purchase with quantity q,
\* 1 <= q <= pool size, assigns q distinct tickets taken from the pool,
\* removes exactly those from the pool, adds exactly those to the buyer's
\* owned tickets, moves the purchase from pending to approved with that
\* list, raises the buyer's counters by 1, q and amount, and leaves every
\* other user's record and owned tickets alone.
C3_ApproveEffect ==
    \A id \in Keys(data.pending) : \A tickets \in SampleChoices(data, id) :
        LET purchase == Get(data.pending, id)
            q == purchase.quantity
            u == purchase.user_id
            out == approve_purchase(data, id, tickets)
            T == Range(out.ret.tickets)
        IN  (1 <= q /\ q <= remaining_tickets(data)) =>
            /\ ~out.raised
            /\ Len(out.ret.tickets) = q
            /\ Cardinality(T) = q
            /\ T \subseteq Pool(data)
            /\ Pool(out.data) = Pool(data) \ T
            /\ remaining_tickets(out.data) = remaining_tickets(data) - q
            /\ Bucket(out.data, u) = Bucket(data, u) \o out.ret.tickets
            /\ ~Has(out.data.pending, id)
            /\ Has(out.data.approved, id)
            /\ Get(out.data.approved, id) = out.ret.purchase
            /\ out.ret.purchase.status = "approved"
            /\ out.ret.purchase.tickets = out.ret.tickets
            /\ Counter(out.data, u, "purchases") = Counter(data, u, "purchases") + 1
            /\ Counter(out.data, u, "total_tickets") = Counter(data, u, "total_tickets") + q
            /\ Counter(out.data, u, "total_spent")
                  = Counter(data, u, "total_spent") + purchase.amount
            /\ \A v \in Users \ {u} :
                  /\ v \in DOMAIN out.data.users <=> v \in DOMAIN data.users
                  /\ v \in DOMAIN data.users => out.data.users[v] = data.users[v]
                  /\ v \in DOMAIN out.data.user_tickets <=> v \in DOMAIN data.user_tickets
                  /\ Bucket(out.data, v) = Bucket(data, v)

\* a purchase of two tickets can be approved while another user already
\* owns tickets and has a record
C3_Witness ==
    \E id \in Keys(data.pending) :
        LET purchase == Get(data.pending, id)
        IN  /\ purchase.quantity = 2
            /\ purchase.quantity <= remaining_tickets(data)
            /\ \E v \in Users \ {purchase.user_id} :
                  /\ v \in DOMAIN data.users
                  /\ Bucket(data, v) # EmptyList

\* the ids whose cancellation is recorded in a user's history
CancelledIds(d) ==
    {id \in PurchaseIds :
        \E u \in DOMAIN d.users : \E i \in 1..Len(d.users[u].history) :
            LET h == d.users[u].history[i]
            IN  /\ h.purchase_id = id
                /\ "status" \in DOMAIN h
                /\ h.status = "cancelled"}

\* the collections that hold an id
CollectionsOf(d, id) == {c \in {"pending", "approved", "rejected"} : Has(d[c], id)}

\* C4 (state part): an id is in at most one of pending, approved and
\* rejected, once per collection, and its status names that collection.
C4_StatusNamesCollection ==
    \A c \in {"pending", "approved", "rejected"} :
        /\ \A i \in 1..Len(data[c]) : \A j \in 1..Len(data[c]) :
              i # j => data[c][i].purchase_id # data[c][j].purchase_id
        /\ \A id \in Keys(data[c]) :
              /\ CollectionsOf(data, id) = {c}
              /\ Get(data[c], id).status = c

\* C4 (step part): an id that has left pending is never pending again, a
\* rejected purchase stays rejected as it is, and a cancellation is
\* recorded only for a purchase that was approved, which then is in no
\* collection.
C4_StepOneWay ==
    \A id \in PurchaseIds :
        /\ (id \in Issued /\ ~is_pending(data, id)) => ~is_pending(data', id)
        /\ Has(data.rejected, id) =>
              /\ Has(data'.rejected, id)
              /\ Get(data'.rejected, id) = Get(data.rejected, id)
        /\ (id \in CancelledIds(data') \ CancelledIds(data)) =>
              /\ Has(data.approved, id)
              /\ CollectionsOf(data', id) = {}
        /\ (Has(data'.approved, id) /\ ~Has(data.approved, id)) =>
              is_pending(data, id)

\* C4: purchase status transitions are one-way.
C4_OneWayTransitions == [](C4_StatusNamesCollection) /\ [][C4_StepOneWay]_vars

\* one purchase has been rejected and another approved and then cancelled
C4_Witness ==
    /\ Len(data.rejected) > 0
    /\ CancelledIds(data) # {}

\* C7: cancel_approved_purchase on an approved purchase returns exactly
\* that purchase's tickets to the pool and removes exactly those, and no
\* others, from the buyer's owned tickets; a second cancel of the same id
\* returns the empty result and changes nothing.
C7_CancelReturnsTickets ==
    \A id \in Keys(data.approved) :
        LET purchase == Get(data.approved, id)
            T == Range(purchase.tickets)
            u == purchase.user_id
            out == cancel_approved_purchase(data, id)
            again == cancel_approved_purchase(out.data, id)
        IN  /\ ~out.raised
            /\ out.ret # EmptyDict
            /\ out.ret.tickets = purchase.tickets
            /\ Pool(out.data) = Pool(data) \cup T
            /\ remaining_tickets(out.data) = remaining_tickets(data) + Len(purchase.tickets)
            /\ Range(Bucket(out.data, u)) = Range(Bucket(data, u)) \ T
            /\ Len(Bucket(out.data, u)) = Len(Bucket(data, u)) - Len(purchase.tickets)
            /\ \A v \in Users \ {u} : Bucket(out.data, v) = Bucket(data, v)
            /\ ~again.raised
            /\ again.ret = EmptyDict
            /\ again.data = out.data
            /\ ~again.persisted

\* a user owns the tickets of two approved purchases, so that a cancel has
\* tickets to leave behind
C7_Witness ==
    /\ Len(data.approved) = 2
    /\ data.approved[1].user_id = data.approved[2].user_id
    /\ data.approved[1].tickets # EmptyList
    /\ data.approved[2].tickets # EmptyList

\* C8: cancel_approved_purchase lowers the buyer's total_tickets by the
\* purchase's quantity and total_spent by its amount and takes the
\* purchase out of approved without putting it into pending or rejected;
\* in every reachable state the counters of every user are >= 0.
C8_CancelCounters ==
    /\ \A u \in DOMAIN data.users :
          /\ data.users[u].purchases >= 0
          /\ data.users[u].total_tickets >= 0
          /\ data.users[u].total_spent >= 0
    /\ \A id \in Keys(data.approved) :
          LET purchase == Get(data.approved, id)
              u == purchase.user_id
              out == cancel_approved_purchase(data, id)
          IN  /\ Counter(out.data, u, "total_tickets")
                    = Counter(data, u, "total_tickets") - purchase.quantity
              /\ Counter(out.data, u, "total_spent")
                    = Counter(data, u, "total_spent") - purchase.amount
              /\ Keys(out.data.approved) = Keys(data.approved) \ {id}
              /\ out.data.pending = data.pending
              /\ out.data.rejected = data.rejected

\* an approved purchase of two tickets can be cancelled while the store
\* also holds a pending or rejected purchase
C8_Witness ==
    /\ \E id \in Keys(data.approved) : Get(data.approved, id).quantity = 2
    /\ Len(data.pending) + Len(data.rejected) > 0

\* C9: a successful reject_purchase moves the purchase from pending to
\* rejected and leaves the pool, the approved collection, every user's
\* owned tickets and every user's counters unchanged.
C9_RejectFrame ==
    \A id \in Keys(data.pending) :
        LET purchase == Get(data.pending, id)
            out == reject_purchase(data, id)
        IN  /\ ~out.raised
            /\ Keys(out.data.pending) = Keys(data.pending) \ {id}
            /\ Keys(out.data.rejected) = Keys(data.rejected) \cup {id}
            /\ Get(out.data.rejected, id) = out.ret
            /\ out.ret.status = "rejected"
            /\ ([status |-> "pending"] @@ out.ret) = purchase
            /\ out.data.available_tickets = data.available_tickets
            /\ out.data.approved = data.approved
            /\ out.data.user_tickets = data.user_tickets
            /\ DOMAIN out.data.users = DOMAIN data.users
            /\ \A u \in Users : \A f \in {"purchases", "total_tickets", "total_spent"} :
                  Counter(out.data, u, f) = Counter(data, u, f)

\* a purchase is pending while its buyer already owns approved tickets
C9_Witness ==
    \E id \in Keys(data.pending) :
        LET u == Get(data.pending, id).user_id
        IN  /\ Counter(data, u, "total_tickets") > 0
            /\ Bucket(data, u) # EmptyList
            /\ Len(data.approved) > 0

\* the call returned empty without raising, changed nothing in the store d
\* and wrote nothing to the state file
NoOp(out, d, empty) ==
    /\ ~out.raised
    /\ ~out.persisted
    /\ out.data = d
    /\ out.ret = empty

\* C10: approve_purchase and reject_purchase on an id that is not pending,
\* and cancel_approved_purchase on an id that is not approved, return the
\* empty result without raising and leave the store and the state file as
\* they were.  Id 0 is an id the store never issued.
C10_UnknownIdNoOp ==
    \A id \in 0..MaxPurchases :
        /\ ~is_pending(data, id) =>
              /\ \A tickets \in SampleChoices(data, id) :
                    NoOp(approve_purchase(data, id, tickets), data, EmptyApproval)
              /\ NoOp(reject_purchase(data, id), data, EmptyDict)
        /\ ~Has(data.approved, id) =>
              NoOp(cancel_approved_purchase(data, id), data, EmptyDict)

\* the store holds an approved and a rejected purchase (both settled) and
\* has cancelled nothing yet
C10_Witness ==
    /\ Len(data.approved) = 1
    /\ Len(data.rejected) = 1

InCritical(t) == task[t].pc \in {"critical", "exit"}

\* C5: store calls are mutually exclusive.  At most one coroutine is
\* inside a critical section, the lock is held exactly then, the store
\* after the calls that have run equals the store the same calls produce
\* when run one after another in the order they took the lock, no ticket
\* is assigned twice and no counter update is lost.
C5_MutualExclusion ==
    /\ Cardinality({t \in Tasks : InCritical(t)}) <= 1
    /\ lock <=> \E t \in Tasks : InCritical(t)
    /\ (\A t \in Tasks : task[t].pc # "critical") => data = serial
    /\ C1_TicketConservation
    /\ \A u \in DOMAIN data.users :
          data.users[u].total_tickets = Len(Bucket(data, u))

\* a coroutine has just run an approval inside the lock, after another
\* approval took tickets from the same pool
C5_Witness ==
    \E t \in Tasks :
        /\ task[t].pc = "exit"
        /\ task[t].call.op = "approve_purchase"
        /\ task[t].call.tickets # EmptyList
        /\ Len(data.approved) = 2
        /\ lock

\* the approvals of purchase id recorded in the users' histories
ApprovalsRecorded(d, id) ==
    SumSet(DOMAIN d.users,
           [u \in DOMAIN d.users |->
              Cardinality({i \in 1..Len(d.users[u].history) :
                  /\ d.users[u].history[i].purchase_id = id
                  /\ "status" \notin DOMAIN d.users[u].history[i]})])

\* C6: for any interleaving of admin_decision callbacks on a purchase, at
\* most one callback resolves it, it is in at most one of approved and
\* rejected, tickets are allocated for it at most once, and the buyer is
\* sent at most one approval-or-rejection message.
C6_ExactlyOnceDecision ==
    \A id \in PurchaseIds :
        /\ Cardinality({c \in Callbacks : cb[c].purchase_id = id /\ cb[c].resolved}) <= 1
        /\ ~(Has(data.approved, id) /\ Has(data.rejected, id))
        /\ ApprovalsRecorded(data, id) <= 1
        /\ notified[id] <= 1
        /\ notified[id] = 1 =>
              \E c \in Callbacks : cb[c].purchase_id = id /\ cb[c].resolved

\* two callbacks on the same purchase both saw it pending; one resolved it
\* and told the buyer, the other came back empty-handed
C6_Witness ==
    \E c1 \in Callbacks : \E c2 \in Callbacks \ {c1} :
        /\ cb[c1].purchase_id = cb[c2].purchase_id
        /\ cb[c1].checked /\ cb[c2].checked
        /\ cb[c1].pc = "done" /\ cb[c2].pc = "done"
        /\ cb[c1].resolved /\ ~cb[c2].resolved
        /\ notified[cb[c1].purchase_id] = 1

\* ---------------------------------------------------------------- C11
\* the purchase create_pending_purchase stores for user u
NewPurchase(d, id, u, quantity, ticket_price) ==
    create_pending_purchase(d, id, u, UserName(u), FullName(u), Contact(u),
                            quantity, ticket_price).data

\* C11: the scenario of pool size 3 and price 100, run from every reachable
\* store whose pool holds 3 tickets.  Purchases A and B of 2 tickets each
\* are created.  Approving A hands out 2 tickets and leaves 1 in the pool;
\* approving B then returns the empty result, B stays pending and the pool
\* keeps 1; rejecting B files it under rejected with the pool still 1;
\* cancelling A brings the pool back to the 3 tickets, takes A's tickets out
\* of its user's list and lowers that user's total_tickets by 2 and
\* total_spent by 200.
C11_Scenario ==
    remaining_tickets(data) = 3 =>
    \A ua \in Users : \A ub \in Users :
        LET A == issued + 1
            B == issued + 2
            s2 == NewPurchase(NewPurchase(data, A, ua, 2, 100), B, ub, 2, 100)
        IN  /\ is_pending(s2, A) /\ is_pending(s2, B)
            /\ \A ta \in SampleChoices(s2, A) :
                LET o3 == approve_purchase(s2, A, ta)
                    s3 == o3.data
                IN  /\ ~o3.raised
                    /\ Len(o3.ret.tickets) = 2
                    /\ Cardinality(Range(o3.ret.tickets)) = 2
                    /\ Has(s3.approved, A)
                    /\ remaining_tickets(s3) = 1
                    /\ \A tb \in SampleChoices(s3, B) :
                        LET o4 == approve_purchase(s3, B, tb)
                            s4 == o4.data
                            o5 == reject_purchase(s4, B)
                            s5 == o5.data
                            o6 == cancel_approved_purchase(s5, A)
                            s6 == o6.data
                        IN  /\ ~o4.raised
                            /\ o4.ret = EmptyApproval
                            /\ is_pending(s4, B)
                            /\ ~Has(s4.approved, B)
                            /\ remaining_tickets(s4) = 1
                            /\ ~o5.raised
                            /\ ~is_pending(s5, B)
                            /\ Has(s5.rejected, B)
                            /\ Get(s5.rejected, B).status = "rejected"
                            /\ remaining_tickets(s5) = 1
                            /\ ~o6.raised
                            /\ remaining_tickets(s6) = 3
                            /\ Pool(s6) = Pool(data)
                            /\ ~Has(s6.approved, A)
                            /\ Range(Bucket(s6, ua)) = Range(Bucket(s5, ua)) \ Range(o3.ret.tickets)
                            /\ Range(Bucket(s6, ua)) = Range(Bucket(data, ua))
                            /\ Counter(s6, ua, "total_tickets")
                                  = Counter(s5, ua, "total_tickets") - 2
                            /\ Counter(s6, ua, "total_spent")
                                  = Counter(s5, ua, "total_spent") - 200

\* the scenario has run: a purchase of 2 was rejected for lack of tickets
\* after another purchase of 2 was approved and then cancelled, and the
\* pool is back at 3
C11_Witness ==
    /\ remaining_tickets(data) = 3
    /\ \E b \in Keys(data.rejected) : Get(data.rejected, b).quantity = 2
    /\ \E u \in DOMAIN data.users :
          \E i \in 1..Len(data.users[u].history) :
              /\ "status" \in DOMAIN data.users[u].history[i]
              /\ data.users[u].history[i].quantity = 2

\* ---------------------------------------------------------------- C12
\* the tickets of the approved purchases of user u
ApprovedTicketsOf(d, u) ==
    UNION {Range(d.approved[i].tickets) :
              i \in {j \in 1..Len(d.approved) : d.approved[j].user_id = u}}

\* C12: in every reachable state, get_user_tickets(u) is in ascending order
\* without duplicates and holds exactly the tickets of the currently
\* approved purchases of u.
C12_UserTickets ==
    \A u \in Users :
        LET owned == get_user_tickets(data, u)
        IN  /\ IsSorted(owned)
            /\ Range(owned) = ApprovedTicketsOf(data, u)

\* a user owns the tickets of two approved purchases
C12_Witness ==
    \E u \in Users :
        /\ Cardinality({i \in 1..Len(data.approved) : data.approved[i].user_id = u}) = 2
        /\ Len(get_user_tickets(data, u)) >= 2

\* ---------------------------------------------------------------- C13
\* every purchase id the store holds or has held
StoreIds(d) ==
    Keys(d.pending) \cup Keys(d.approved) \cup Keys(d.rejected) \cup CancelledIds(d)

RECURSIVE TotalQuantity(_)
\* the quantities of a collection of purchases, added up
TotalQuantity(purchases) ==
    IF purchases = << >> THEN 0
    ELSE Head(purchases).quantity + TotalQuantity(Tail(purchases))

\* C13: in every reachable state and for every buyer and quantity,
\* create_pending_purchase returns an id that no purchase of the store has,
\* appends exactly one purchase with status pending and amount = quantity x
\* unit price to the pending collection, and leaves the pool, approved,
\* rejected, the user records and the owned tickets as they were; it does
\* so whatever the pool holds.
C13_CreateEffect ==
    \A u \in Users : \A q \in Quantities :
        LET out == create_pending_purchase(data, uuid4, u, UserName(u), FullName(u),
                                           Contact(u), q, TicketPrice)
            n == Len(data.pending)
        IN  /\ ~out.raised
            /\ out.persisted
            /\ out.ret = uuid4
            /\ out.ret \notin StoreIds(data)
            /\ Len(out.data.pending) = n + 1
            /\ SubSeq(out.data.pending, 1, n) = data.pending
            /\ out.data.pending[n + 1].purchase_id = out.ret
            /\ out.data.pending[n + 1].user_id = u
            /\ out.data.pending[n + 1].quantity = q
            /\ out.data.pending[n + 1].status = "pending"
            /\ out.data.pending[n + 1].amount = q * TicketPrice
            /\ out.data.available_tickets = data.available_tickets
            /\ out.data.approved = data.approved
            /\ out.data.rejected = data.rejected
            /\ out.data.users = data.users
            /\ out.data.user_tickets = data.user_tickets

\* two purchases were created although the pool cannot cover both: each
\* fits the pool, and their quantities add up to more than the pool holds
C13_Witness ==
    /\ Len(data.pending) = 2
    /\ TotalQuantity(data.pending) > remaining_tickets(data)
    /\ \A i \in 1..Len(data.pending) :
          /\ data.pending[i].quantity >= 1
          /\ data.pending[i].quantity <= remaining_tickets(data)

\* ---------------------------------------------------------- configuration
\* str.strip() on the strings the admin sends
Strip(s) ==
    CASE s = " 9860 " -> "9860"
      [] s = " @boss " -> "@boss"
      [] OTHER -> s

\* what the admin sends as card number, manager contact and channel
CardNumbers == {"9860", " 9860 "}
ManagerContacts == {"@boss", " @boss "}
ChannelIds == {"@channel"}
ChannelTitle(channel_id) == "Channel"
ChannelLink(channel_id) == None

\* self._data.setdefault("meta", {})[key] = value
SetMeta(d, key, value) ==
    LET d1 == SetDefault(d, "meta", EmptyDict)
    IN  Set(d1, "meta", Set(d1.meta, key, value))

\* self._data.setdefault("subscriptions", {})[key] = value
SetSubs(d, key, value) ==
    LET d1 == SetDefault(d, "subscriptions", EmptyDict)
    IN  Set(d1, "subscriptions", Set(d1.subscriptions, key, value))

\* subs.setdefault("channels", [])
Channels(d) ==
    GetOr(GetOr(d, "subscriptions", EmptyDict), "channels", EmptyList)

set_card_number(d, card_number) ==
    Outcome(SetMeta(d, "card_number", Strip(card_number)), None, FALSE, TRUE)

set_manager_contact(d, username) ==
    Outcome(SetMeta(d, "manager_contact", Strip(username)), None, FALSE, TRUE)

set_subscription_enabled(d, enabled) ==
    Outcome(SetSubs(d, "enabled", enabled), None, FALSE, TRUE)

add_subscription_channel(d, channel_id, title, link) ==
    LET channels == Channels(d)
        item == [id |-> channel_id, title |-> title, link |-> link]
        known == \E i \in 1..Len(channels) : channels[i].id = channel_id
        updated == IF known
                   THEN [i \in 1..Len(channels) |->
                            IF channels[i].id = channel_id THEN item ELSE channels[i]]
                   ELSE Append(channels, item)
    IN  Outcome(SetSubs(d, "channels", updated), None, FALSE, TRUE)

\* _persist runs only if a channel went away
remove_subscription_channel(d, channel_id) ==
    LET channels == Channels(d)
        kept == SelectSeq(channels, LAMBDA item : item.id # channel_id)
        changed == Len(kept) # Len(channels)
    IN  Outcome(SetSubs(d, "channels", kept), changed, FALSE, changed)

\* the configuration calls the admin can make
ConfigCalls ==
    {[op |-> "set_card_number", value |-> c] : c \in CardNumbers}
    \cup {[op |-> "set_manager_contact", value |-> m] : m \in ManagerContacts}
    \cup {[op |-> "set_subscription_enabled", value |-> e] : e \in {"on", "off"}}
    \cup {[op |-> o, value |-> ch] :
            o \in {"add_subscription_channel", "remove_subscription_channel"},
            ch \in ChannelIds}

\* the body of a configuration call applied to the store d
ApplyConfig(d, call) ==
    CASE call.op = "set_card_number" -> set_card_number(d, call.value)
      [] call.op = "set_manager_contact" -> set_manager_contact(d, call.value)
      [] call.op = "set_subscription_enabled" ->
            set_subscription_enabled(d, call.value = "on")
      [] call.op = "add_subscription_channel" ->
            add_subscription_channel(d, call.value, ChannelTitle(call.value),
                                     ChannelLink(call.value))
      [] call.op = "remove_subscription_channel" ->
            remove_subscription_channel(d, call.value)

SetCardNumber ==
    \E card_number \in CardNumbers :
        /\ Call(set_card_number(data, card_number))
        /\ UNCHANGED <<maintVars, issued, lockVars, adminVars>>

SetManagerContact ==
    \E username \in ManagerContacts :
        /\ Call(set_manager_contact(data, username))
        /\ UNCHANGED <<maintVars, issued, lockVars, adminVars>>

SetSubscriptionEnabled ==
    \E enabled \in BOOLEAN :
        /\ Call(set_subscription_enabled(data, enabled))
        /\ UNCHANGED <<maintVars, issued, lockVars, adminVars>>

AddSubscriptionChannel ==
    \E ch \in ChannelIds :
        /\ Call(add_subscription_channel(data, ch, ChannelTitle(ch), ChannelLink(ch)))
        /\ UNCHANGED <<maintVars, issued, lockVars, adminVars>>

RemoveSubscriptionChannel ==
    \E ch \in ChannelIds :
        /\ Call(remove_subscription_channel(data, ch))
        /\ UNCHANGED <<maintVars, issued, lockVars, adminVars>>

ConfigNext ==
    \/ SetCardNumber
    \/ SetManagerContact
    \/ SetSubscriptionEnabled
    \/ AddSubscriptionChannel
    \/ RemoveSubscriptionChannel


\* ---------------------------------------------------------------- C14
\* the state file after a call: rewritten by _persist if the call reached
\* it, otherwise what it was
FileAfter(out) == IF out.persisted THEN _persist(out.data) ELSE disk

\* the document of the state file and _data are equal as Python dicts: the
\* same keys with equal values, the order of the purchases aside
SameState(file, d) ==
    /\ file.kind = "json"
    /\ DOMAIN file.doc = DOMAIN d
    /\ \A k \in DOMAIN d :
          IF k \in {"pending", "approved", "rejected"}
          THEN Range(file.doc[k]) = Range(d[k])
          ELSE file.doc[k] = d[k]

\* C14: write-through durability.  In every reachable state, whenever a
\* mutating store operation (a purchase or user operation, or a
\* configuration setter) returns without raising, the state file holds the
\* in-memory state.
C14_WriteThrough ==
    /\ \A call \in StoreCalls :
          LET out == Apply(data, call)
          IN  ~out.raised => SameState(FileAfter(out), out.data)
    /\ \A call \in ConfigCalls :
          LET out == ApplyConfig(data, call)
          IN  ~out.raised => SameState(FileAfter(out), out.data)

\* ------------------------------------------------- failing write-through
\* the state file after a write that failed part-way: open("w") has
\* truncated it and json.dump did not finish
Truncated == [kind |-> "truncated"]

\* The outcome of a store call whose _persist raises OSError.  The call has
\* changed _data before it reaches _persist, and no handler in the store
\* catches the exception or undoes the change: it leaves the call as it is.
WriteFails(out) == Outcome(out.data, None, TRUE, FALSE)

\* a store call whose write-through fails
WriteFailure ==
    \E call \in StoreCalls :
        LET out == Apply(data, call)
        IN  /\ out.persisted
            /\ data' = WriteFails(out).data
            \* the file is untouched if mkdir or open failed, truncated if
            \* the dump failed
            /\ (disk' = disk \/ disk' = Truncated)
            /\ issued' = IF call.op = "create_pending_purchase" THEN issued + 1 ELSE issued
            /\ UNCHANGED <<maintVars, lockVars, adminVars>>

\* the store on a disk that can fail
SpecIO == Init /\ [][Next \/ WriteFailure]_vars

\* ---------------------------------------------------------------- C15
\* C15: if the write-through of register_user, create_pending_purchase,
\* approve_purchase, reject_purchase or cancel_approved_purchase fails, the
\* failure reaches the caller and the in-memory state is what it was before
\* the call: the change is applied only together with its write.
C15_ApplyAndPersistTogether ==
    \A call \in StoreCalls :
        LET out == Apply(data, call)
            failed == WriteFails(out)
        IN  out.persisted => (failed.raised /\ failed.data = data)

\* ---------------------------------------------------------------- C16
\* C16: restart round trip.  In every reachable state, for every purchase,
\* user or configuration operation that reaches its write, a store
\* constructed from the state file that operation wrote (_load, then
\* _ensure_defaults) holds exactly the in-memory state the operation left:
\* the same pool, purchases in the same order, owned tickets, user records
\* and configuration.
C16_RestartRoundTrip ==
    /\ \A call \in StoreCalls :
          LET out == Apply(data, call)
          IN  (~out.raised /\ out.persisted) => Construct(FileAfter(out)) = out.data
    /\ \A call \in ConfigCalls :
          LET out == ApplyConfig(data, call)
          IN  (~out.raised /\ out.persisted) => Construct(FileAfter(out)) = out.data

\* an approved purchase holds a ticket below one of the pool, so that
\* cancelling it has to put the pool back in order, while the card number
\* is no longer the default and a subscription channel is configured
C16_Witness ==
    /\ \E i \in 1..Len(data.approved) :
          \E t \in Range(data.approved[i].tickets) : \E p \in Pool(data) : t < p
    /\ data.meta.card_number # DefaultCardNumber
    /\ Channels(data) # EmptyList
    /\ data.pending # EmptyDict

\* ------------------------------------------------- statistics and upkeep
\* sum(item.get("amount", 0) for item in purchases.values())
RECURSIVE TotalAmount(_)
TotalAmount(purchases) ==
    IF purchases = << >> THEN 0
    ELSE Head(purchases).amount + TotalAmount(Tail(purchases))

\* a leaderboard ordered by the amount spent alone
RECURSIVE TopUsers_BySpent(_)
TopUsers_BySpent(entries) ==
    IF entries = {} THEN << >>
    ELSE LET best == CHOOSE e \in entries : \A f \in entries :
                        \/ e.spent > f.spent
                        \/ e.spent = f.spent /\ e.user_id <= f.user_id
         IN  <<best>> \o TopUsers_BySpent(entries \ {best})

\* sorted(..., key=(tickets, spent), reverse=True): the entries with the
\* larger key first.  The model keeps no insertion order of the users, so
\* entries with equal keys are listed by user id.
RECURSIVE TopUsers(_)
TopUsers(entries) ==
    IF entries = {} THEN << >>
    ELSE LET best == CHOOSE e \in entries : \A f \in entries :
                        \/ e.tickets > f.tickets
                        \/ e.tickets = f.tickets /\ e.spent > f.spent
                        \/ e.tickets = f.tickets /\ e.spent = f.spent
                              /\ e.user_id <= f.user_id
         IN  <<best>> \o TopUsers(entries \ {best})

\* get_detailed_stats, without the fields that depend on the clock
\* (active_users_24h, new_users_24h); an average is kept as the pair it is
\* the quotient of
get_detailed_stats(d) ==
    LET ids == DOMAIN d.users
        total_users == Cardinality(ids)
        tickets_sold == SumSet(ids, [u \in ids |-> d.users[u].total_tickets])
        total_revenue == SumSet(ids, [u \in ids |-> d.users[u].total_spent])
        total_purchases == SumSet(ids, [u \in ids |-> d.users[u].purchases])
        entries == {[user_id |-> d.users[u].user_id,
                     full_name |-> d.users[u].full_name,
                     username |-> d.users[u].username,
                     tickets |-> d.users[u].total_tickets,
                     spent |-> d.users[u].total_spent] :
                        u \in {v \in ids : d.users[v].total_tickets > 0}}
        top == TopUsers(entries)
    IN  [total_tickets |-> NumTickets,
         remaining_tickets |-> Len(d.available_tickets),
         tickets_sold |-> tickets_sold,
         total_revenue |-> total_revenue,
         pending_amount |-> TotalAmount(d.pending),
         pending_count |-> Len(d.pending),
         approved_count |-> Len(d.approved),
         rejected_count |-> Len(d.rejected),
         total_users |-> total_users,
         total_purchases |-> total_purchases,
         avg_tickets_per_user |-> IF total_users # 0 THEN <<tickets_sold, total_users>> ELSE <<0, 1>>,
         avg_spend_per_user |-> IF total_users # 0 THEN <<total_revenue, total_users>> ELSE <<0, 1>>,
         top_users |-> SubSeq(top, 1, IF Len(top) < 5 THEN Len(top) ELSE 5)]

\* a reset that starts over from the default payload, configuration included
reset_all_data_Defaults(d) == Outcome(Construct(NoFile), None, FALSE, TRUE)

\* reset_all_data: the pool back to the full range, the purchase, ticket
\* and user collections emptied, the configuration kept; written through
reset_all_data(d) ==
    Outcome([d EXCEPT !.available_tickets = [i \in 1..NumTickets |-> i],
                      !.pending = EmptyDict,
                      !.approved = EmptyDict,
                      !.rejected = EmptyDict,
                      !.user_tickets = EmptyDict,
                      !.users = EmptyDict],
            None, FALSE, TRUE)

\* the top-level fields a snapshot must have
RequiredFields == {"available_tickets", "users", "approved", "pending"}

\* restore_from_backup: a snapshot that lacks a required field is refused
\* with a format error; otherwise the snapshot replaces the whole state, in
\* memory and in the state file
restore_from_backup(d, doc) ==
    IF ~(RequiredFields \subseteq DOMAIN doc)
    THEN Outcome(d, None, TRUE, FALSE)
    ELSE Outcome(doc, None, FALSE, TRUE)

\* admin_settings_backup: a copy of the state file, sent with a caption made
\* from get_detailed_stats()
admin_settings_backup(d, file, count) ==
    [taken |-> TRUE, count |-> count + 1, file |-> file, stats |-> get_detailed_stats(d)]

\* a key check that does not look for "pending"
MissingKeys_NoPending(doc) ==
    {k \in {"available_tickets", "users", "approved"} : k \notin DOMAIN doc}

\* missing_keys = [k for k in required_keys if k not in data]
MissingKeys(doc) ==
    {k \in {"available_tickets", "users", "approved", "pending"} : k \notin DOMAIN doc}

NoReply == [kind |-> "none"]

\* admin_settings_handle_restore for an uploaded .json document: what the
\* store and the state file are afterwards, the reply, and the settings
\* mode of the admin
admin_settings_handle_restore(d, file, settings_mode, upload) ==
    IF settings_mode # "restore_backup"
    THEN [data |-> d, disk |-> file, reply |-> NoReply, settings_mode |-> settings_mode]
    ELSE IF upload.kind # "json"
    THEN \* json.load raises JSONDecodeError
         [data |-> d, disk |-> file, reply |-> [kind |-> "json_error"],
          settings_mode |-> settings_mode]
    ELSE IF MissingKeys(upload.doc) # {}
    THEN [data |-> d, disk |-> file,
          reply |-> [kind |-> "format_error", missing |-> MissingKeys(upload.doc)],
          settings_mode |-> settings_mode]
    ELSE LET out == restore_from_backup(d, upload.doc)
         IN  IF out.raised
             THEN \* except Exception
                  [data |-> d, disk |-> file, reply |-> [kind |-> "error"],
                   settings_mode |-> settings_mode]
             ELSE [data |-> out.data, disk |-> _persist(out.data),
                   reply |-> [kind |-> "restored", stats |-> get_detailed_stats(out.data)],
                   settings_mode |-> None]

\* a dict without one of its keys
Without(doc, key) == [k \in (DOMAIN doc) \ {key} |-> doc[k]]

\* the documents the admin can upload: the backup, the backup with one of
\* the required fields cut out, an empty JSON object, and a file that is
\* not JSON
Uploads ==
    (IF backup.taken
     THEN {backup.file} \cup
          {JsonFile(Without(backup.file.doc, k)) :
              k \in {"available_tickets", "users", "approved", "pending"}}
     ELSE {})
    \cup {JsonFile(EmptyDict), [kind |-> "truncated"]}

\* the settings mode of the admin when a document arrives
SettingsModes == {"restore_backup", None}

AdminSettingsBackup ==
    /\ backup.count < MaxBackups
    /\ backup' = admin_settings_backup(data, disk, backup.count)
    /\ UNCHANGED <<reader, dialogVars, storeVars, lockVars, adminVars>>

AdminSettingsHandleRestore ==
    \E settings_mode \in SettingsModes : \E upload \in Uploads :
        LET res == admin_settings_handle_restore(data, disk, settings_mode, upload)
        IN  /\ data' = res.data
            /\ disk' = res.disk
            /\ UNCHANGED <<issued, lockVars, adminVars, maintVars>>

\* admin_settings_clear_confirm
AdminSettingsClearConfirm ==
    /\ Call(reset_all_data(data))
    /\ UNCHANGED <<issued, lockVars, adminVars, maintVars>>

MaintNext ==
    \/ AdminSettingsBackup
    \/ AdminSettingsHandleRestore
    \/ AdminSettingsClearConfirm

\* the store and its configuration driven by one caller at a time
SpecConfig == Init /\ [][Next \/ ConfigNext \/ AdminSettingsClearConfirm]_vars

\* the store with backup, restore and reset
SpecMaint ==
    Init /\ [][\/ CreatePendingPurchase
               \/ ApprovePurchase
               \/ RejectPurchase
               \/ CancelApprovedPurchase
               \/ SetCardNumber
               \/ MaintNext]_vars

\* ---------------------------------------------------------------- C19
\* C19: in every reachable state, reset_all_data sets the pool to the full
\* range 1..NumTickets, empties the pending, approved, rejected, owned
\* ticket and user collections, and leaves the message templates, the card
\* number, the manager contact and the subscription configuration as they
\* were.
C19_ResetEffect ==
    LET out == reset_all_data(data)
    IN  /\ ~out.raised
        /\ out.persisted
        /\ out.data.available_tickets = [i \in 1..NumTickets |-> i]
        /\ out.data.pending = EmptyDict
        /\ out.data.approved = EmptyDict
        /\ out.data.rejected = EmptyDict
        /\ out.data.user_tickets = EmptyDict
        /\ out.data.users = EmptyDict
        /\ out.data.meta = data.meta
        /\ out.data.subscriptions = data.subscriptions
        /\ DOMAIN out.data = DOMAIN data

\* a store to reset: tickets are sold, purchases are pending and approved,
\* users are known, and the card number, the manager contact and the
\* subscription configuration are no longer the defaults
C19_Witness ==
    /\ remaining_tickets(data) < NumTickets
    /\ data.pending # EmptyDict
    /\ data.approved # EmptyDict
    /\ DOMAIN data.users # {}
    /\ DOMAIN data.user_tickets # {}
    /\ data.meta.card_number # DefaultCardNumber
    /\ data.meta.manager_contact = "@boss"
    /\ data.subscriptions.enabled
    /\ Channels(data) # EmptyList

\* ---------------------------------------------------------------- C18
\* C18: in every reachable state, for every JSON document uploaded in
\* restore mode: if the document lacks one of available_tickets, users,
\* approved and pending, the restore fails with a format error naming the
\* missing fields and leaves the in-memory state and the state file as they
\* were; if it has all four, it replaces the entire state, in memory and
\* in the state file.
C18_RestoreValidation ==
    \A upload \in {f \in Uploads : f.kind = "json"} :
        LET res == admin_settings_handle_restore(data, disk, "restore_backup", upload)
            out == restore_from_backup(data, upload.doc)
            missing == {"available_tickets", "users", "approved", "pending"}
                          \ DOMAIN upload.doc
        IN  IF missing # {}
            THEN /\ res.reply.kind = "format_error"
                 /\ res.reply.missing = missing
                 /\ res.data = data
                 /\ res.disk = disk
                 /\ out.raised
                 /\ out.data = data
                 /\ ~out.persisted
            ELSE /\ res.reply.kind = "restored"
                 /\ res.data = upload.doc
                 /\ res.disk = JsonFile(upload.doc)
                 /\ ~out.raised
                 /\ out.data = upload.doc

\* the admin holds a backup of a store that has changed since: other
\* purchases are pending and approved, and the card number is another one
C18_Witness ==
    /\ backup.taken
    /\ "card_number" \in DOMAIN backup.file.doc.meta
    /\ backup.file.doc.meta.card_number # data.meta.card_number
    /\ backup.file.doc.pending # data.pending
    /\ backup.file.doc.approved # data.approved
    /\ backup.file.doc.approved # EmptyDict
    /\ backup.file.doc.users # data.users

\* ---------------------------------------------------------------- C17
\* C17: whenever the admin holds a backup, restoring it (whatever has
\* happened to the store since) gives a store whose get_detailed_stats()
\* equals the get_detailed_stats() taken when the backup was made, the
\* clock-dependent fields aside.
C17_BackupRestoreStats ==
    backup.taken =>
        LET res == admin_settings_handle_restore(data, disk, "restore_backup", backup.file)
        IN  /\ res.reply.kind = "restored"
            /\ get_detailed_stats(res.data) = backup.stats

\* ---------------------------------------------------------------- C20
\* what register_user can be handed as username, display name and phone
UserNameInputs == {None, "user", "nick"}
FullNameInputs == {None, "", "Name", "Other"}
PhoneInputs == {None, "", "+998", "+111"}

\* register_user leaves everything but the record of user u as it was, and
\* in that record the counters and the history
RegisterFrame(d, out, u) ==
    /\ ~out.raised
    /\ out.persisted
    /\ DOMAIN out.data = DOMAIN d
    /\ \A k \in (DOMAIN d) \ {"users"} : out.data[k] = d[k]
    /\ DOMAIN out.data.users = (DOMAIN d.users) \cup {u}
    /\ \A v \in (DOMAIN d.users) \ {u} : out.data.users[v] = d.users[v]
    /\ out.data.users[u].user_id = u
    /\ out.data.users[u].purchases = Counter(d, u, "purchases")
    /\ out.data.users[u].total_tickets = Counter(d, u, "total_tickets")
    /\ out.data.users[u].total_spent = Counter(d, u, "total_spent")
    /\ out.data.users[u].history
          = (IF u \in DOMAIN d.users THEN d.users[u].history ELSE EmptyList)

\* a second call with the same arguments changes nothing
RegisterIdempotent(out, u, username, full_name, phone_number) ==
    register_user(out.data, u, username, full_name, phone_number).data = out.data

\* C20 as stated: register_user is an upsert.  For an unknown user it
\* creates a record with the supplied fields, counters 0 and an empty
\* history; for a known user it sets username and display name to the
\* supplied values and overwrites the phone only when a non-empty phone is
\* supplied; it never changes counters, history, the pool or a purchase; and
\* calling it twice gives what calling it once gives.
C20_UpsertAsStated ==
    \A u \in Users : \A username \in UserNameInputs :
    \A full_name \in FullNameInputs : \A phone_number \in PhoneInputs :
        LET out == register_user(data, u, username, full_name, phone_number)
            new == out.data.users[u]
        IN  /\ RegisterFrame(data, out, u)
            /\ RegisterIdempotent(out, u, username, full_name, phone_number)
            /\ new.username = username
            /\ new.full_name = full_name
            /\ new.phone_number =
                  (IF u \in DOMAIN data.users /\ ~Truthy(phone_number)
                   THEN data.users[u].phone_number ELSE phone_number)

\* C20, amended: as above, except that for a known user the username is
\* overwritten only when the supplied one is not None and the display name
\* only when the supplied one is non-empty; otherwise the stored one stays.
C20_Upsert ==
    \A u \in Users : \A username \in UserNameInputs :
    \A full_name \in FullNameInputs : \A phone_number \in PhoneInputs :
        LET out == register_user(data, u, username, full_name, phone_number)
            new == out.data.users[u]
            known == u \in DOMAIN data.users
        IN  /\ RegisterFrame(data, out, u)
            /\ RegisterIdempotent(out, u, username, full_name, phone_number)
            /\ new.username =
                  (IF known /\ username = None THEN data.users[u].username ELSE username)
            /\ new.full_name =
                  (IF known /\ ~Truthy(full_name) THEN data.users[u].full_name ELSE full_name)
            /\ new.phone_number =
                  (IF known /\ ~Truthy(phone_number)
                   THEN data.users[u].phone_number ELSE phone_number)

\* one user is known, with a username, a phone, a purchase counted and a
\* history, and another user is not known yet
C20_Witness ==
    /\ \E u \in DOMAIN data.users :
          /\ data.users[u].username # None
          /\ Truthy(data.users[u].phone_number)
          /\ data.users[u].purchases > 0
          /\ data.users[u].total_spent > 0
          /\ data.users[u].history # EmptyList
    /\ \E v \in Users : v \notin DOMAIN data.users
    /\ data.pending # EmptyDict

\* ------------------------------------------- a reader among the writers
\* get_detailed_stats is  async with self._lock: <body without an await>.
\* The reader takes the lock, computes the snapshot, and releases the lock
\* as it returns the snapshot.
StatsAcquire ==
    /\ reader.pc = "idle"
    /\ LockFree(lock)
    /\ lock' = TRUE
    /\ reader' = [pc |-> "critical"]
    /\ UNCHANGED <<storeVars, task, serial, adminVars, backup, dialogVars>>

StatsBody ==
    /\ reader.pc = "critical"
    /\ reader' = [pc |-> "exit", stats |-> get_detailed_stats(data)]
    /\ UNCHANGED <<storeVars, lockVars, adminVars, backup, dialogVars>>

StatsRelease ==
    /\ reader.pc = "exit"
    /\ lock' = FALSE
    /\ reader' = IdleReader
    /\ UNCHANGED <<storeVars, task, serial, adminVars, backup, dialogVars>>

StatsNext == StatsAcquire \/ StatsBody \/ StatsRelease

\* concurrent store calls with a concurrent get_detailed_stats
SpecStats == Init /\ [][LockNext \/ StatsNext]_vars

\* ---------------------------------------------------------------- C21
\* C21: every snapshot get_detailed_stats returns, under any interleaving
\* with the mutating calls, is the snapshot of one store state, the one the
\* store is in while the reader holds the lock: tickets_sold +
\* remaining_tickets = total_tickets, total_revenue is the sum of the
\* amounts of the approved purchases, approved_count, rejected_count and
\* pending_count are the sizes of the collections, and pending_amount is
\* the sum of the pending amounts.
C21_SnapshotConsistent ==
    reader.pc = "exit" =>
        /\ \A t \in Tasks : ~InCritical(t)
        /\ reader.stats = get_detailed_stats(data)
        /\ reader.stats.tickets_sold + reader.stats.remaining_tickets
              = reader.stats.total_tickets
        /\ reader.stats.remaining_tickets = Len(data.available_tickets)
        /\ reader.stats.total_revenue = TotalAmount(data.approved)
        /\ reader.stats.approved_count = Len(data.approved)
        /\ reader.stats.rejected_count = Len(data.rejected)
        /\ reader.stats.pending_count = Len(data.pending)
        /\ reader.stats.pending_amount = TotalAmount(data.pending)

\* a snapshot is about to be returned that counts an approved purchase of
\* two tickets and a pending one, made by calls of the other coroutines
C21_Witness ==
    /\ reader.pc = "exit"
    /\ reader.stats.approved_count = 1
    /\ reader.stats.tickets_sold = 2
    /\ reader.stats.pending_count = 1
    /\ reader.stats.total_revenue = 2 * TicketPrice

\* ------------------------------------------------------- the leaderboard
\* get_detailed_stats reads the user records only through total_tickets,
\* total_spent and purchases.  The leaderboard is cut after five entries, so
\* it is checked on stores of a lottery with up to RankUsers participants:
\* every user is unknown, or registered with one of the records below.
RankUsers == 6

\* (total_tickets, total_spent) of a registered user: no ticket, one or two
\* tickets at the price of config.py, or one ticket approved in a run
\* configured with twice the price
RankRecords ==
    {<<0, 0>>, <<1, TicketPrice>>, <<2, 2 * TicketPrice>>, <<1, 2 * TicketPrice>>}

RankedUser(u, r) ==
    [NewUserRecord(u, UserName(u), FullName(u), None) EXCEPT
        !.total_tickets = r[1], !.total_spent = r[2],
        !.purchases = IF r[1] = 0 THEN 0 ELSE 1]

RankInit ==
    /\ \E ids \in SUBSET (1..RankUsers) : \E rec \in [ids -> RankRecords] :
          data = [Construct(NoFile) EXCEPT
                     !.users = [u \in ids |-> RankedUser(u, rec[u])]]
    /\ disk = _persist(data)
    /\ issued = 0
    /\ lock = FALSE
    /\ task = [t \in Tasks |-> IdleTask]
    /\ serial = data
    /\ cb = [c \in Callbacks |-> IdleCallback]
    /\ notified = [id \in PurchaseIds |-> 0]
    /\ backup = NoBackup
    /\ reader = IdleReader
    /\ chat = [u \in Users |-> NoConversation]
    /\ modes = NoModes

SpecRank == RankInit /\ [][StatsNext]_vars

\* the key the leaderboard is ordered by, compared as Python compares tuples
RankedAbove(a, b) ==
    \/ a[1] > b[1]
    \/ a[1] = b[1] /\ a[2] >= b[2]

\* C22: the top_users list of a snapshot has at most five entries, each the
\* entry of a different user who owns at least one ticket; it is ordered by
\* tickets descending, then by spend descending; every user with a ticket
\* who is left out ranks no higher than each listed one (and nobody is left
\* out while the list has fewer than five entries); without users both
\* per-user averages are 0.
C22_TopUsers ==
    reader.pc = "exit" =>
        LET top == reader.stats.top_users
            listed == {top[i].user_id : i \in 1..Len(top)}
            holders == {u \in DOMAIN data.users : data.users[u].total_tickets >= 1}
            key(u) == <<data.users[u].total_tickets, data.users[u].total_spent>>
        IN  /\ Len(top) <= 5
            /\ Cardinality(listed) = Len(top)
            /\ listed \subseteq holders
            /\ \A i \in 1..Len(top) :
                  /\ top[i].tickets = data.users[top[i].user_id].total_tickets
                  /\ top[i].spent = data.users[top[i].user_id].total_spent
                  /\ top[i].tickets >= 1
            /\ \A i, j \in 1..Len(top) :
                  i < j => RankedAbove(<<top[i].tickets, top[i].spent>>,
                                       <<top[j].tickets, top[j].spent>>)
            /\ \A u \in holders \ listed :
                  /\ Len(top) = 5
                  /\ \A v \in listed : RankedAbove(key(v), key(u))
            /\ (DOMAIN data.users = {} =>
                  /\ reader.stats.avg_tickets_per_user[1] = 0
                  /\ reader.stats.avg_spend_per_user[1] = 0)

\* a snapshot of six ticket holders: one is cut from the list, and two of
\* the listed ones own the same number of tickets for different amounts
C22_Witness ==
    /\ reader.pc = "exit"
    /\ Cardinality({u \in DOMAIN data.users : data.users[u].total_tickets >= 1}) = 6
    /\ Len(reader.stats.top_users) = 5
    /\ \E i, j \in 1..5 :
          /\ reader.stats.top_users[i].tickets = reader.stats.top_users[j].tickets
          /\ reader.stats.top_users[i].spent > reader.stats.top_users[j].spent

\* ------------------------------------------------------ message templates
\* a keyword argument of str.format: a str or an int
StrValue(s) == [type |-> "str", value |-> s]
IntValue(n) == [type |-> "int", value |-> n]

\* the outcome of str.format or of a render: the text, or the exception
Formatted(text) == [raised |-> FALSE, text |-> text]
Raises(exc, arg) == [raised |-> TRUE, exc |-> exc, arg |-> arg]

\* one piece of a template formatted with the keyword arguments kwargs:
\* {name} looks the name up (KeyError) and formats the value with its
\* format spec; the format code s is for str only and d for int only
\* (ValueError); {} asks for a positional argument (IndexError)
FormatPiece(piece, kwargs) ==
    CASE piece.kind = "text" -> Formatted(piece.text)
      [] piece.kind = "auto" ->
            Raises("IndexError", "Replacement index 0 out of range")
      [] piece.kind = "field" ->
            IF piece.name \notin DOMAIN kwargs THEN Raises("KeyError", piece.name)
            ELSE LET v == kwargs[piece.name]
                 IN  CASE piece.spec = "" ->
                            Formatted(IF v.type = "int" THEN ToString(v.value)
                                      ELSE v.value)
                       [] piece.spec = "s" ->
                            IF v.type = "str" THEN Formatted(v.value)
                            ELSE Raises("ValueError", "Unknown format code 's'")
                       [] piece.spec = "d" ->
                            IF v.type = "int" THEN Formatted(ToString(v.value))
                            ELSE Raises("ValueError", "Unknown format code 'd'")

\* text.format(**kwargs): the pieces are formatted from left to right and
\* the first exception ends the call; the text is kept as its pieces
RECURSIVE format(_, _)
format(text, kwargs) ==
    IF text = << >> THEN Formatted(<< >>)
    ELSE LET first == FormatPiece(Head(text), kwargs)
         IN  IF first.raised THEN first
             ELSE LET rest == format(Tail(text), kwargs)
                  IN  IF rest.raised THEN rest
                      ELSE Formatted(<<first.text>> \o rest.text)

\* not text.strip(): nothing but whitespace
IsBlank(text) ==
    \A i \in 1..Len(text) : text[i].kind = "text" /\ text[i].text = " "

\* _validate_template: the ValueError it raises, or no error
NoError == [raised |-> FALSE]
ValueError(message, arg) == [raised |-> TRUE, message |-> message, arg |-> arg]

_validate_template(text, required_keys) ==
    IF IsBlank(text)
    THEN ValueError("Matn bo'sh bo'lishi mumkin emas.", None)
    ELSE LET payload == [key \in required_keys |-> StrValue("__" \o key \o "__")]
             trial == format(text, payload)
         IN  CASE ~trial.raised -> NoError
               [] trial.raised /\ trial.exc = "KeyError" ->
                     ValueError("Noma'lum o'zgaruvchi: ", trial.arg)
               [] OTHER ->
                     ValueError("Shablonni formatlashda xatolik yuz berdi.", None)

StartKeys == {"prize", "total_tickets", "remaining_tickets", "ticket_price"}
SubscriptionKeys == {"channels"}
GameInfoKeys ==
    {"prize", "total_tickets", "sold_tickets", "remaining_tickets", "ticket_price"}

\* a setter that raised in _validate_template, before touching the store
Invalid(d, error) == Outcome(d, error, TRUE, FALSE)

set_start_message(d, text, media) ==
    LET error == _validate_template(text, StartKeys)
    IN  IF error.raised THEN Invalid(d, error)
        ELSE Outcome(SetMeta(d, "start_message", [text |-> text, media |-> media]),
                     None, FALSE, TRUE)

set_subscription_message(d, text) ==
    LET error == _validate_template(text, SubscriptionKeys)
    IN  IF error.raised THEN Invalid(d, error)
        ELSE Outcome(SetMeta(d, "subscription_message", text), None, FALSE, TRUE)

set_game_info_message(d, text) ==
    LET error == _validate_template(text, GameInfoKeys)
    IN  IF error.raised THEN Invalid(d, error)
        ELSE Outcome(SetMeta(d, "game_info_message", text), None, FALSE, TRUE)

reset_game_info_message(d) ==
    Outcome(SetMeta(d, "game_info_message", DEFAULT_GAME_INFO_MESSAGE),
            DEFAULT_GAME_INFO_MESSAGE, FALSE, TRUE)

\* self._data.setdefault("meta", {}).get(key, default)
GetMeta(d, key, default) == GetOr(GetOr(d, "meta", EmptyDict), key, default)

\* render_start_content: the formatted text, or the exception of format
render_start_content(d, prize, total_tickets, remaining, ticket_price) ==
    LET start_cfg == GetMeta(d, "start_message",
                             [text |-> DEFAULT_START_TEMPLATE, media |-> None])
    IN  format(GetOr(start_cfg, "text", DEFAULT_START_TEMPLATE),
               [prize |-> StrValue(prize),
                total_tickets |-> IntValue(total_tickets),
                remaining_tickets |-> IntValue(remaining),
                ticket_price |-> StrValue(ticket_price)])

render_game_info_message(d, prize, total_tickets, ticket_price) ==
    LET template == GetMeta(d, "game_info_message", DEFAULT_GAME_INFO_MESSAGE)
        remaining == Len(d.available_tickets)
        sold == Max(0, total_tickets - remaining)
    IN  format(template,
               [prize |-> StrValue(prize),
                total_tickets |-> IntValue(total_tickets),
                sold_tickets |-> IntValue(sold),
                remaining_tickets |-> IntValue(remaining),
                ticket_price |-> StrValue(ticket_price)])

\* render_subscription_message(): the block of channel lines is a str
render_subscription_message(d) ==
    LET message_template ==
            GetMeta(d, "subscription_message", DEFAULT_SUBSCRIPTION_MESSAGE)
        channels_block == IF Channels(d) # EmptyList THEN "channel titles"
                          ELSE "Kanallar qo'shilmagan"
    IN  format(message_template, [channels |-> StrValue(channels_block)])

\* settings.prize_name and _format_currency(settings.ticket_price)
PrizeName == "prize name"
FormattedPrice == "50 000"

\* what an admin sends as a template: nothing, one piece, or one piece
\* after a blank
FieldNames == {"prize", "total_tickets", "sold_tickets", "channels", "winner"}
Pieces ==
    {Text(" "), Text("Sovrin: "), AutoField}
    \cup {Field(name, spec) : name \in FieldNames, spec \in {"", "s", "d"}}
Templates ==
    {<< >>} \cup {<<p>> : p \in Pieces} \cup {<<Text(" "), p>> : p \in Pieces}
\* the media of a start message, named by its type
Media == {None, "photo"}

SetStartMessage ==
    \E text \in Templates, media \in Media :
        /\ Call(set_start_message(data, text, media))
        /\ UNCHANGED <<maintVars, issued, lockVars, adminVars>>

SetSubscriptionMessage ==
    \E text \in Templates :
        /\ Call(set_subscription_message(data, text))
        /\ UNCHANGED <<maintVars, issued, lockVars, adminVars>>

SetGameInfoMessage ==
    \E text \in Templates :
        /\ Call(set_game_info_message(data, text))
        /\ UNCHANGED <<maintVars, issued, lockVars, adminVars>>

ResetGameInfoMessage ==
    /\ Call(reset_game_info_message(data))
    /\ UNCHANGED <<maintVars, issued, lockVars, adminVars>>

TemplateNext ==
    \/ SetStartMessage
    \/ SetSubscriptionMessage
    \/ SetGameInfoMessage
    \/ ResetGameInfoMessage

SpecTemplate == Init /\ [][TemplateNext]_vars

\* the placeholders of a template that its setter does not allow
OutsideNames(text, keys) ==
    {text[i].name : i \in {j \in 1..Len(text) :
                              text[j].kind = "field" /\ text[j].name \notin keys}}

\* a template whose placeholders are all named and allowed
OnlyAllowed(text, keys) ==
    \A i \in 1..Len(text) :
        text[i].kind = "text" \/ (text[i].kind = "field" /\ text[i].name \in keys)

\* a setter called with a template that is blank or names a placeholder it
\* does not allow raises, naming such a placeholder in the second case, and
\* leaves store and file alone
TemplateRejected(out, text, keys) ==
    /\ OutsideNames(text, keys) # {} /\ ~IsBlank(text) =>
          /\ out.raised
          /\ out.ret.message = "Noma'lum o'zgaruvchi: "
          /\ out.ret.arg \in OutsideNames(text, keys)
    /\ IsBlank(text) => out.raised
    /\ IsBlank(text) \/ OutsideNames(text, keys) # {} =>
          /\ out.data = data
          /\ ~out.persisted

\* a setter called with a template of allowed placeholders stores it, and
\* the render of the stored template completes
TemplateAccepted(out, text, keys, stored, rendered) ==
    OnlyAllowed(text, keys) /\ ~IsBlank(text) =>
        /\ ~out.raised
        /\ out.persisted
        /\ stored = text
        /\ ~rendered.raised

RenderStart(d) ==
    render_start_content(d, PrizeName, NumTickets, remaining_tickets(d), FormattedPrice)
RenderGameInfo(d) == render_game_info_message(d, PrizeName, NumTickets, FormattedPrice)

\* C23 (first half): a template that is empty or whitespace-only, or that
\* names a placeholder outside the allowed set of its setter, is refused with
\* a validation error (naming such a placeholder in the second case) and
\* the stored templates and the file stay as they were.
C23_Refused ==
    \A text \in Templates :
        /\ \A media \in Media :
              TemplateRejected(set_start_message(data, text, media), text, StartKeys)
        /\ TemplateRejected(set_subscription_message(data, text), text, SubscriptionKeys)
        /\ TemplateRejected(set_game_info_message(data, text), text, GameInfoKeys)

\* C23: setting a template fails with a validation error naming the
\* placeholder when the template uses a placeholder outside the allowed set,
\* fails when the template is empty or whitespace-only, and leaves the
\* stored template unchanged in both cases; a template that uses only
\* allowed placeholders is stored, and every later render of the stored
\* templates completes without error.
C23_TemplateValidation ==
    /\ C23_Refused
    /\ \A text \in Templates :
          /\ LET out == set_start_message(data, text, None)
             IN  TemplateAccepted(out, text, StartKeys,
                                  out.data.meta.start_message.text,
                                  RenderStart(out.data))
          /\ LET out == set_subscription_message(data, text)
             IN  TemplateAccepted(out, text, SubscriptionKeys,
                                  out.data.meta.subscription_message,
                                  render_subscription_message(out.data))
          /\ LET out == set_game_info_message(data, text)
             IN  TemplateAccepted(out, text, GameInfoKeys,
                                  out.data.meta.game_info_message,
                                  RenderGameInfo(out.data))
    /\ ~RenderStart(data).raised
    /\ ~render_subscription_message(data).raised
    /\ ~RenderGameInfo(data).raised

\* a stored game-info template of allowed placeholders whose render raises
C23_RenderFails ==
    /\ OnlyAllowed(data.meta.game_info_message, GameInfoKeys)
    /\ RenderGameInfo(data).raised

\* ------------------------------------------------------------ the queries
\* [dict(item) for item in self._data["pending"].values()]
list_pending(d) == Outcome(d, d.pending, FALSE, FALSE)
list_approved(d) == Outcome(d, d.approved, FALSE, FALSE)

get_user_profile(d, user_id) ==
    Outcome(d, IF user_id \in DOMAIN d.users THEN d.users[user_id] ELSE None,
            FALSE, FALSE)

\* a summary whose revenue also counts the purchases still pending
get_summary_Gross(d) ==
    LET remaining == Len(d.available_tickets)
    IN  Outcome(d, [total |-> NumTickets,
                    sold |-> NumTickets - remaining,
                    remaining |-> remaining,
                    pending_count |-> Len(d.pending),
                    revenue |-> TotalAmount(d.approved) + TotalAmount(d.pending)],
                FALSE, FALSE)

get_summary(d) ==
    LET remaining == Len(d.available_tickets)
    IN  Outcome(d, [total |-> NumTickets,
                    sold |-> NumTickets - remaining,
                    remaining |-> remaining,
                    pending_count |-> Len(d.pending),
                    revenue |-> TotalAmount(d.approved)],
                FALSE, FALSE)

\* --------------------------------------------- objects handed to callers
\* The store above is a value; the Python store is a graph of dicts and
\* lists, and a call returns objects.  An object of _data is named by the
\* place that holds it: the purchase dict under _data[bucket][id], the list
\* random.sample made for purchase id (approve_purchase puts this one list
\* into the purchase and into the history entry it appends), and the
\* history list of a user record.
PurchaseDict(bucket, id) == <<bucket, id>>
TicketList(id) == <<"tickets", id>>
HistoryList(user_id) == <<"history", user_id>>

\* the objects of _data reachable from the purchase dict of id in bucket
ReachPurchase(d, bucket, id) ==
    {PurchaseDict(bucket, id)}
    \cup (IF "tickets" \in DOMAIN Get(d[bucket], id) THEN {TicketList(id)} ELSE {})

\* dict(item): a new dict with the values of item; what was reachable
\* through a value of item still is
ShallowCopy(reach, item) == reach \ {item}

\* the objects of the store d (as the call left it) that the caller of call
\* can reach through the value the call returned
Returned(d, call, out) ==
    CASE out.raised -> {}
      [] call.op = "approve_purchase" ->
            \* return tickets, purchase
            IF out.persisted THEN ReachPurchase(out.data, "approved", call.purchase_id)
            ELSE {}
      [] call.op = "reject_purchase" ->
            \* return purchase
            IF out.persisted THEN ReachPurchase(out.data, "rejected", call.purchase_id)
            ELSE {}
      [] call.op = "cancel_approved_purchase" ->
            \* return purchase: the dict has left _data, its ticket list is
            \* still the one of the history entry
            IF out.persisted
            THEN ReachPurchase(d, "approved", call.purchase_id)
                     \ {PurchaseDict("approved", call.purchase_id)}
            ELSE {}
      [] call.op = "list_pending" ->
            UNION {ShallowCopy(ReachPurchase(d, "pending", id), PurchaseDict("pending", id)) :
                      id \in Keys(d.pending)}
      [] call.op = "list_approved" ->
            UNION {ShallowCopy(ReachPurchase(d, "approved", id), PurchaseDict("approved", id)) :
                      id \in Keys(d.approved)}
      [] call.op = "get_user_profile" ->
            \* dict(record)
            IF call.user_id \in DOMAIN d.users THEN {HistoryList(call.user_id)} ELSE {}
      [] OTHER -> {}

\* the store after a caller has changed the object at a place: the status
\* of a purchase dict overwritten, a list cleared
Mutated(d, place) ==
    CASE place[1] \in {"approved", "rejected"} ->
            [d EXCEPT ![place[1]] =
                [i \in 1..Len(@) |-> IF @[i].purchase_id = place[2]
                                     THEN [@[i] EXCEPT !.status = "changed"]
                                     ELSE @[i]]]
      [] place[1] = "tickets" ->
            [d EXCEPT
                !.approved =
                    [i \in 1..Len(@) |-> IF @[i].purchase_id = place[2]
                                         THEN [@[i] EXCEPT !.tickets = EmptyList]
                                         ELSE @[i]],
                !.users =
                    [u \in DOMAIN @ |->
                        [@[u] EXCEPT !.history =
                            [k \in 1..Len(@) |->
                                IF /\ @[k].purchase_id = place[2]
                                   /\ "status" \notin DOMAIN @[k]
                                THEN [@[k] EXCEPT !.tickets = EmptyList]
                                ELSE @[k]]]]]
      [] place[1] = "history" ->
            [d EXCEPT !.users[place[2]].history = EmptyList]

\* the calls that return purchases, lists of purchases or a profile
ReturningCalls ==
    {call \in StoreCalls :
        call.op \in {"approve_purchase", "reject_purchase", "cancel_approved_purchase"}}
    \cup {[op |-> "list_pending"], [op |-> "list_approved"]}
    \cup {[op |-> "get_user_profile", user_id |-> u] : u \in Users}

ApplyReturning(d, call) ==
    CASE call.op = "list_pending" -> list_pending(d)
      [] call.op = "list_approved" -> list_approved(d)
      [] call.op = "get_user_profile" -> get_user_profile(d, call.user_id)
      [] OTHER -> Apply(d, call)

\* C24: the values the store operations return are copies: whatever a
\* caller changes in a returned value (the purchase, its ticket list, a
\* listed entry, a profile and its history), the store stays as the call
\* left it.
C24_ReturnsCopies ==
    \A call \in ReturningCalls :
        LET out == ApplyReturning(data, call)
        IN  \A place \in Returned(data, call, out) :
                Mutated(out.data, place) = out.data

\* an approval whose returned purchase is the dict the store keeps
C24_SharedPurchase ==
    \E call \in ReturningCalls :
        /\ call.op = "approve_purchase"
        /\ LET out == ApplyReturning(data, call)
           IN  /\ ~out.raised
               /\ PurchaseDict("approved", call.purchase_id) \in Returned(data, call, out)
               /\ Mutated(out.data, PurchaseDict("approved", call.purchase_id)) # out.data

\* ------------------------------------------------------------- C25
\* the read-only operations, with every argument a handler can pass
ReadCalls ==
    {[op |-> o] : o \in {"remaining_tickets", "list_pending", "list_approved",
                          "get_summary", "get_detailed_stats"}}
    \cup {[op |-> "is_pending", purchase_id |-> id] : id \in PurchaseIds}
    \cup {[op |-> "get_user_tickets", user_id |-> u] : u \in Users}

\* a read: the body computes a value under the lock, assigns to nothing and
\* does not reach _persist
Query(d, ret) == Outcome(d, ret, FALSE, FALSE)

ApplyRead(d, call) ==
    CASE call.op = "remaining_tickets" -> Query(d, remaining_tickets(d))
      [] call.op = "is_pending" -> Query(d, is_pending(d, call.purchase_id))
      [] call.op = "list_pending" -> list_pending(d)
      [] call.op = "list_approved" -> list_approved(d)
      [] call.op = "get_user_tickets" -> Query(d, get_user_tickets(d, call.user_id))
      [] call.op = "get_summary" -> get_summary(d)
      [] call.op = "get_detailed_stats" -> Query(d, get_detailed_stats(d))

\* C25: remaining_tickets, is_pending, list_pending, list_approved,
\* get_user_tickets, get_summary and get_detailed_stats return without
\* raising and leave the whole store and the state file as they were;
\* remaining_tickets returns the number of tickets in the pool.
C25_ReadOnly ==
    \A call \in ReadCalls :
        LET out == ApplyRead(data, call)
        IN  /\ ~out.raised
            /\ out.data = data
            /\ FileAfter(out) = disk
            /\ call.op = "remaining_tickets" => out.ret = Cardinality(Pool(data))

\* the reads answer on a store with one ticket left, a purchase approved
\* and another one pending
C25_Witness ==
    /\ ApplyRead(data, [op |-> "remaining_tickets"]).ret = 1
    /\ Len(ApplyRead(data, [op |-> "list_approved"]).ret) = 1
    /\ \E id \in PurchaseIds : ApplyRead(data, [op |-> "is_pending", purchase_id |-> id]).ret
    /\ ApplyRead(data, [op |-> "get_summary"]).ret.sold = 2
    /\ \E u \in Users :
          Len(ApplyRead(data, [op |-> "get_user_tickets", user_id |-> u]).ret) = 2

\* ------------------------------------------------------------- C26
\* a pool in ascending order without duplicates, of tickets of the lottery
Normalized(available) ==
    /\ IsSorted(available)
    /\ Range(available) \subseteq AllTickets

\* C26: in every reachable state the pool of available tickets is sorted
\* ascending, free of duplicates and within 1..NumTickets; so is the pool
\* every approve_purchase and every cancel_approved_purchase leaves, and
\* the pool a restart loads from the state file.
C26_PoolNormalized ==
    /\ Normalized(data.available_tickets)
    /\ disk.kind = "json" => Normalized(Construct(disk).available_tickets)
    /\ \A id \in PurchaseIds :
          /\ \A tickets \in SampleChoices(data, id) :
                Normalized(approve_purchase(data, id, tickets).data.available_tickets)
          /\ Normalized(cancel_approved_purchase(data, id).data.available_tickets)

\* a cancellation has returned a ticket that is not the largest of the pool
C26_Witness ==
    \E u \in DOMAIN data.users : \E k \in 1..Len(data.users[u].history) :
        LET entry == data.users[u].history[k]
        IN  /\ "status" \in DOMAIN entry
            /\ entry.status = "cancelled"
            /\ \E t \in Range(entry.tickets) : \E p \in Pool(data) :
                  t \in Pool(data) /\ t < p

\* ------------------------------------------------------------- C27
\* the history of user u in the store d; a user without record has none
HistoryOf(d, u) == IF u \in DOMAIN d.users THEN d.users[u].history ELSE EmptyList

IsPrefix(s, t) == Len(s) <= Len(t) /\ SubSeq(t, 1, Len(s)) = s

\* the user whose purchase a resolving call is about, and the status the
\* call gives the purchase
OwnerOf(d, call) ==
    IF call.op = "cancel_approved_purchase"
    THEN Get(d.approved, call.purchase_id).user_id
    ELSE Get(d.pending, call.purchase_id).user_id
ResultingStatus(call) ==
    CASE call.op = "approve_purchase" -> "approved"
      [] call.op = "reject_purchase" -> "rejected"
      [] call.op = "cancel_approved_purchase" -> "cancelled"

\* the call resolves a purchase: it is an approve, reject or cancel that
\* returned without raising and changed the store
Resolving(call, out) ==
    /\ call.op \in {"approve_purchase", "reject_purchase", "cancel_approved_purchase"}
    /\ ~out.raised
    /\ out.persisted

\* C27 (append-only part): no store call removes, reorders or rewrites an
\* entry of a user's history; what was there stays in front, unchanged.
C27_AppendOnly ==
    \A call \in StoreCalls : \A u \in Users :
        IsPrefix(HistoryOf(data, u), HistoryOf(Apply(data, call).data, u))

\* C27: a user's history is append-only and records every resolution: each
\* successful approve, reject and cancel of a purchase of the user appends
\* exactly one entry, which carries the resulting status (approved,
\* rejected, cancelled), and no call removes, reorders or rewrites an entry.
C27_HistoryRecordsResolutions ==
    /\ C27_AppendOnly
    /\ \A call \in StoreCalls :
          LET out == Apply(data, call)
          IN  Resolving(call, out) =>
                LET u == OwnerOf(data, call)
                    before == HistoryOf(data, u)
                    after == HistoryOf(out.data, u)
                IN  /\ Len(after) = Len(before) + 1
                    /\ after[Len(after)].purchase_id = call.purchase_id
                    /\ "status" \in DOMAIN after[Len(after)]
                    /\ after[Len(after)].status = ResultingStatus(call)

\* C27 (as the store does it): a user's history is append-only; each
\* successful approve_purchase appends exactly one entry for the purchase,
\* with its tickets, amount and quantity and without a status; each
\* successful cancel_approved_purchase appends exactly one entry with status
\* cancelled; reject_purchase and the other calls append nothing.
C27_History ==
    /\ C27_AppendOnly
    /\ \A call \in StoreCalls : \A u \in Users :
          LET out == Apply(data, call)
              before == HistoryOf(data, u)
              after == HistoryOf(out.data, u)
              last == after[Len(after)]
          IN  IF Resolving(call, out) /\ call.op # "reject_purchase"
                 /\ u = OwnerOf(data, call)
              THEN /\ Len(after) = Len(before) + 1
                   /\ last.purchase_id = call.purchase_id
                   \* the tickets the call returned (with the purchase, for a cancel)
                   /\ last.tickets = out.ret.tickets
                   /\ last.amount = Get(IF call.op = "approve_purchase"
                                        THEN data.pending ELSE data.approved,
                                        call.purchase_id).amount
                   /\ IF call.op = "approve_purchase"
                      THEN "status" \notin DOMAIN last
                      ELSE "status" \in DOMAIN last /\ last.status = "cancelled"
              ELSE after = before

\* a user whose purchase was approved and then cancelled, with another of
\* his purchases rejected: the history holds the approval without status
\* and the cancellation, and nothing of the rejection
C27_Witness ==
    \E u \in DOMAIN data.users :
        /\ Len(data.users[u].history) = 2
        /\ "status" \notin DOMAIN data.users[u].history[1]
        /\ "status" \in DOMAIN data.users[u].history[2]
        /\ \E i \in 1..Len(data.rejected) : data.rejected[i].user_id = u

\* ------------------------------------------------------------- C28
\* A bot restarted on the state file of an earlier run, in which a purchase
\* of MaxQty tickets (id 0, by user 1) was approved and is left alone: the
\* purchases of this run compete for the rest of the pool.
EarlierRun(tickets) ==
    LET created == create_pending_purchase(Construct(NoFile), 0, 1, UserName(1),
                                           FullName(1), Contact(1), MaxQty,
                                           TicketPrice)
    IN  approve_purchase(created.data, 0, tickets).data

RestartInit ==
    /\ \E tickets \in Sample([i \in 1..NumTickets |-> i], MaxQty) :
          /\ disk = _persist(EarlierRun(tickets))
          /\ data = Construct(disk)
    /\ issued = 0
    /\ lock = FALSE
    /\ task = [t \in Tasks |-> IdleTask]
    /\ serial = data
    /\ cb = [c \in Callbacks |-> IdleCallback]
    /\ notified = [id \in PurchaseIds |-> 0]
    /\ backup = NoBackup
    /\ reader = IdleReader
    /\ chat = [u \in Users |-> NoConversation]
    /\ modes = NoModes

SpecRestart == RestartInit /\ [][Next]_vars

\* the approve of the pending purchase id is refused for shortage
FailsForShortage(d, id) ==
    /\ is_pending(d, id)
    /\ Shortage(d.available_tickets, Get(d.pending, id).quantity)

\* C28 (contents): an approve_purchase refused for shortage returns the
\* empty result without raising or writing the file, and leaves the pool,
\* the users, the approved and rejected purchases and every pending
\* purchase as they were.
C28_ShortageKeepsContents ==
    \A id \in PurchaseIds :
        LET out == approve_purchase(data, id, EmptyList)
        IN  FailsForShortage(data, id) =>
                /\ NoOp(out, out.data, EmptyApproval)
                /\ [out.data EXCEPT !.pending = data.pending] = data
                /\ Range(out.data.pending) = Range(data.pending)
                /\ Len(out.data.pending) = Len(data.pending)

\* C28: an approve_purchase that fails for shortage leaves the store
\* exactly as it was, and list_pending() returns the pending purchases in
\* the order it returned them before the call.
C28_ShortageFrame ==
    \A id \in PurchaseIds :
        LET out == approve_purchase(data, id, EmptyList)
        IN  FailsForShortage(data, id) =>
                /\ NoOp(out, data, EmptyApproval)
                /\ list_pending(out.data).ret = list_pending(data).ret

\* two purchases are pending and the pool cannot cover the older one
C28_OlderPurchaseShort ==
    /\ Len(data.pending) = 2
    /\ FailsForShortage(data, data.pending[1].purchase_id)

\* ------------------------------------------------------------- C29
\* admin_cancel_approved: the admin presses the cancel button of a listed
\* approved purchase (or of one that is no longer approved)
AdminCancelApproved ==
    \E id \in Keys(data.approved) \cup PurchaseIds :
        /\ Call(cancel_approved_purchase(data, id))
        /\ UNCHANGED <<maintVars, issued, lockVars, adminVars>>

RetryNext ==
    \/ CreatePendingPurchase
    \/ AdminCancelApproved
    \/ \E c \in Callbacks :
          \/ AdminStart(c)
          \/ AdminIsPending(c)
          \/ AdminApprove(c)
          \/ AdminReject(c)
          \/ AdminNotify(c)
          \/ AdminNotifyFails(c)

\* the admin at work on a store restarted from the file of an earlier run
SpecRetry == RestartInit /\ [][RetryNext]_vars

\* the approve callback c has ended with the shortage alert: it found the
\* purchase pending, its approve_purchase resolved nothing, and the
\* purchase is pending still
RefusedForShortage(c) ==
    /\ cb[c].pc = "done"
    /\ cb[c].action = "approve"
    /\ cb[c].checked
    /\ ~cb[c].resolved
    /\ is_pending(data, cb[c].purchase_id)

\* in the store d the pending purchase id can be rejected, and approved as
\* soon as the pool holds as many tickets as it asks for
Resolvable(d, id) ==
    /\ LET out == reject_purchase(d, id)
       IN  /\ ~out.raised
           /\ out.persisted
           /\ out.ret # EmptyDict
           /\ Has(out.data.rejected, id)
           /\ ~is_pending(out.data, id)
    /\ Len(d.available_tickets) >= Get(d.pending, id).quantity =>
          \A tickets \in SampleChoices(d, id) :
              LET out == approve_purchase(d, id, tickets)
              IN  /\ ~out.raised
                  /\ out.persisted
                  /\ out.ret.tickets # EmptyList
                  /\ Len(out.ret.tickets) = Get(d.pending, id).quantity
                  /\ Has(out.data.approved, id)
                  /\ ~is_pending(out.data, id)

\* C29 (state part): a purchase whose approve callback ended with the
\* shortage alert can be rejected, and approved once the pool has reached
\* its quantity.
C29_RefusedStaysResolvable ==
    \A c \in Callbacks : RefusedForShortage(c) => Resolvable(data, cb[c].purchase_id)

\* C29 (step part): an approve callback that meets a shortage leaves the
\* purchase pending as it was and resolves nothing; an approve or reject
\* callback on a purchase that was refused before, and that the pool can
\* cover by now, resolves it and goes on to notify the buyer.
C29_StepRetry ==
    \A c \in Callbacks :
        LET id == cb[c].purchase_id
        IN  (cb[c].pc = "decide" /\ cb'[c].pc # "decide") =>
              /\ (cb[c].action = "approve" /\ FailsForShortage(data, id)) =>
                    /\ cb'[c].pc = "done"
                    /\ ~cb'[c].resolved
                    /\ is_pending(data', id)
                    /\ Get(data'.pending, id) = Get(data.pending, id)
              /\ ((\E e \in Callbacks : RefusedForShortage(e) /\ cb[e].purchase_id = id)
                  /\ (cb[c].action = "approve" =>
                        Len(data.available_tickets) >= Get(data.pending, id).quantity)) =>
                    /\ cb'[c].pc = "notify"
                    /\ cb'[c].resolved
                    /\ ~is_pending(data', id)
                    /\ Has(data'[IF cb[c].action = "approve" THEN "approved"
                                 ELSE "rejected"], id)

\* C29: a purchase whose approval failed for shortage stays resolvable: it
\* can still be rejected, and once cancellations have returned enough
\* tickets for the pool to reach its quantity, a later approve_purchase,
\* and a later approve callback of admin_decision, succeeds.
C29_StaysResolvable == [](C29_RefusedStaysResolvable) /\ [][C29_StepRetry]_vars

\* a purchase was refused for shortage, a cancellation has returned enough
\* tickets since, and a second approve callback is about to approve it
C29_Witness ==
    \E c, e \in Callbacks :
        /\ RefusedForShortage(e)
        /\ cb[c].pc = "decide"
        /\ cb[c].action = "approve"
        /\ cb[c].purchase_id = cb[e].purchase_id
        /\ ~Has(data.approved, 0)
        /\ Len(data.available_tickets) >= Get(data.pending, cb[e].purchase_id).quantity

\* ------------------------------------------------------------- C30
\* the approved purchases of user u, and a counter of u's record (0 for a
\* user the store has no record of)
ApprovedOf(d, u) == SelectSeq(d.approved, LAMBDA p : p.user_id = u)
CounterOf(d, u, name) == IF u \in DOMAIN d.users THEN d.users[u][name] ELSE 0

\* C30: in every state reachable from a fresh store and for every user,
\* total_tickets is the number of tickets in the user's owned-ticket list
\* and the sum of the quantities of the user's approved purchases,
\* total_spent is the sum of their amounts, and purchases is their number.
C30_CountersMatchApproved ==
    \A u \in Users :
        /\ CounterOf(data, u, "total_tickets") = Len(Bucket(data, u))
        /\ CounterOf(data, u, "total_tickets") = TotalQuantity(ApprovedOf(data, u))
        /\ CounterOf(data, u, "total_spent") = TotalAmount(ApprovedOf(data, u))
        /\ CounterOf(data, u, "purchases") = Len(ApprovedOf(data, u))

\* a user with one approved purchase of two tickets left after another of
\* his purchases was approved and cancelled
C30_Witness ==
    \E u \in DOMAIN data.users :
        /\ data.users[u].purchases = 1
        /\ data.users[u].total_tickets = 2
        /\ data.users[u].total_spent = 2 * TicketPrice
        /\ Len(data.users[u].history) = 3

\* ------------------------------------------------------------------- C31
\* a purchase is accounted for when it is in exactly one of pending,
\* approved and rejected, or in none of them with its cancellation recorded
Accounted(d, id) ==
    \/ Cardinality(CollectionsOf(d, id)) = 1
    \/ /\ CollectionsOf(d, id) = {}
       /\ id \in CancelledIds(d)

\* an approve_purchase that raises: random.sample refuses the quantity
\* after the purchase was popped from pending
ApproveRaises(d, id) ==
    /\ is_pending(d, id)
    /\ \E tickets \in SampleChoices(d, id) : approve_purchase(d, id, tickets).raised

\* C31: no purchase is ever lost: every purchase create_pending_purchase
\* accepted, whatever its quantity, is at every later point in exactly one
\* of pending, approved and rejected, or has been cancelled, and no call
\* of approve_purchase, returning or raising, leaves it in no collection.
C31_NoPurchaseLost ==
    /\ \A id \in Issued : Accounted(data, id)
    /\ \A id \in PurchaseIds : \A tickets \in SampleChoices(data, id) :
          is_pending(data, id) =>
              Accounted(approve_purchase(data, id, tickets).data, id)

\* C31 (what does hold): an approve_purchase that returns keeps the
\* purchase accounted for; the purchase is lost by the raising call only.
C31_LostOnlyByRaise ==
    \A id \in PurchaseIds : \A tickets \in SampleChoices(data, id) :
        LET out == approve_purchase(data, id, tickets)
        IN  (is_pending(data, id) /\ ~out.raised) =>
                Cardinality(CollectionsOf(out.data, id)) = 1

\* a purchase of a negative quantity is pending: its approval will raise
C31_NegativePending ==
    \E id \in Keys(data.pending) : ApproveRaises(data, id)

\* ------------------------------------------------------------------- C32
\* the caller's test "if not tickets" on the pair approve_purchase returned
NotTickets(out) == out.ret.tickets = EmptyList

\* the call moved nothing: the approved purchases, the users' counters and
\* histories, the pool and the owned tickets are as before
ApprovedNothing(d, out, id) ==
    /\ out.data.approved = d.approved
    /\ out.data.users = d.users
    /\ out.data.available_tickets = d.available_tickets
    /\ out.data.user_tickets = d.user_tickets

\* C32: approve_purchase returns an empty ticket list if and only if it
\* changed nothing: for every purchase create_pending_purchase accepted
\* (quantity 0 included), an empty returned list means the purchase was
\* not moved to approved and no counter or history changed, and a
\* non-empty list means it was approved.
C32_EmptyIffUnchanged ==
    \A id \in PurchaseIds : \A tickets \in SampleChoices(data, id) :
        LET out == approve_purchase(data, id, tickets)
        IN  ~out.raised =>
                /\ NotTickets(out) => ApprovedNothing(data, out, id)
                /\ ~NotTickets(out) =>
                      /\ Has(out.data.approved, id)
                      /\ ~is_pending(out.data, id)

\* C32 (what does hold): for a purchase of a positive quantity the empty
\* list identifies exactly the approvals that changed nothing.
C32_PositiveQuantity ==
    \A id \in PurchaseIds : \A tickets \in SampleChoices(data, id) :
        LET out == approve_purchase(data, id, tickets)
        IN  (~out.raised /\ (is_pending(data, id) => Get(data.pending, id).quantity > 0)) =>
                /\ NotTickets(out) <=> ApprovedNothing(data, out, id)
                /\ is_pending(data, id) =>
                      (NotTickets(out) <=> ~Has(out.data.approved, id))

\* a purchase of quantity 0 has been approved: it holds no ticket
C32_ApprovedWithoutTickets ==
    \E id \in Keys(data.approved) : Get(data.approved, id).tickets = EmptyList

\* ------------------------------------------------------------------- C33
\* C33: get_summary and get_detailed_stats agree in every state reachable
\* from a fresh store: sold = tickets_sold, remaining = remaining_tickets,
\* revenue = total_revenue and pending_count = pending_count, although
\* sold and revenue come from the pool and the approved purchases in the
\* one and from the per-user counters in the other.
C33_SummaryMatchesStats ==
    LET summary == get_summary(data).ret
        stats == get_detailed_stats(data)
    IN  /\ summary.sold = stats.tickets_sold
        /\ summary.remaining = stats.remaining_tickets
        /\ summary.revenue = stats.total_revenue
        /\ summary.pending_count = stats.pending_count
        /\ summary.total = stats.total_tickets

\* tickets are sold while another purchase has been approved and cancelled
C33_Witness ==
    /\ get_summary(data).ret.sold > 0
    /\ get_detailed_stats(data).total_revenue > 0
    /\ CancelledIds(data) # {}

\* ------------------------------------------------------------------- C34
\* A coroutine that calls the store waits at "async with self._lock" until
\* the lock is free.  The call and its arguments are fixed when it starts;
\* the id uuid4 produces and the sample random.sample produces are fixed
\* when it gets the lock.

\* the calls a coroutine can start; the purchases are those of one user,
\* of the largest quantity (two of them meet the shortage return) or of a
\* negative one (random.sample raises inside the lock)
Requests ==
    {[op |-> "create_pending_purchase", user_id |-> 1, quantity |-> q] :
        q \in {-1, MaxQty}}
    \cup {[op |-> o, purchase_id |-> id] :
        o \in {"approve_purchase", "reject_purchase", "cancel_approved_purchase"},
        id \in PurchaseIds}

\* the call, as it runs, of a request
Matches(request, call) ==
    /\ call.op = request.op
    /\ IF request.op = "create_pending_purchase"
       THEN call.user_id = request.user_id /\ call.quantity = request.quantity
       ELSE call.purchase_id = request.purchase_id

\* the creates that wait for the lock
WaitingCreates ==
    {t \in Tasks : task[t].pc = "waiting"
                     /\ task[t].call.op = "create_pending_purchase"}

\* a coroutine calls a store method and reaches "async with self._lock";
\* a run makes MaxPurchases purchases at most
LiveStart(t) ==
    /\ task[t].pc = "idle"
    /\ \E request \in Requests :
        /\ request.op = "create_pending_purchase" =>
              issued + Cardinality(WaitingCreates) < MaxPurchases
        /\ task' = [task EXCEPT ![t] = [pc |-> "waiting", call |-> request]]
    /\ UNCHANGED <<maintVars, storeVars, lock, serial, adminVars>>

\* asyncio.Lock.acquire returns: the waiting coroutine holds the lock
LiveEnter(t) ==
    /\ task[t].pc = "waiting"
    /\ LockFree(lock)
    /\ \E call \in StoreCalls :
        /\ Matches(task[t].call, call)
        /\ task' = [task EXCEPT ![t] = [pc |-> "critical", call |-> call]]
        /\ issued' = IF call.op = "create_pending_purchase" THEN issued + 1 ELSE issued
    /\ lock' = TRUE
    /\ UNCHANGED <<maintVars, data, disk, serial, adminVars>>

LiveNext == \E t \in Tasks : LiveStart(t) \/ LiveEnter(t) \/ Body(t) \/ Release(t)

\* The event loop runs every coroutine that can run, so the body and the
\* exit of the with block are taken once reached (the body has no await).
\* asyncio.Lock wakes its waiters in the order they arrived, so a waiting
\* coroutine is not passed over for ever: strong fairness of the entry.
LiveFairness ==
    \A t \in Tasks :
        /\ WF_vars(Body(t))
        /\ WF_vars(Release(t))
        /\ SF_vars(LiveEnter(t))

SpecLive == Init /\ [][LiveNext]_vars /\ LiveFairness

\* C34 (state part): the lock is held exactly while one coroutine is
\* inside a store call, so no call takes the lock while it holds it and a
\* waiting coroutine waits for a coroutine that is not waiting itself.
C34_HeldByOne ==
    /\ lock <=> \E t \in Tasks : InCritical(t)
    /\ \A t \in Tasks : \A u \in Tasks : (InCritical(t) /\ InCritical(u)) => t = u

\* C34: the store lock cannot deadlock: under fair scheduling every
\* started store operation eventually acquires the lock, finishes and
\* releases it, on its success path and on its early-return paths alike.
C34_NoDeadlock ==
    /\ [](C34_HeldByOne)
    /\ \A t \in Tasks :
          /\ (task[t].pc = "waiting") ~> (task[t].pc = "critical")
          /\ (task[t].pc = "critical") ~> (task[t].pc = "idle")

\* a coroutine waits for the lock while another one is leaving an
\* approve_purchase that returned for shortage
C34_Witness ==
    \E t \in Tasks : \E u \in Tasks :
        /\ task[t].pc = "waiting"
        /\ task[u].pc = "exit"
        /\ task[u].call.op = "approve_purchase"
        /\ FailsForShortage(data, task[u].call.purchase_id)
        /\ lock

\* ------------------------------------------------------ the buy conversation
\* build_conversation_handler: a ConversationHandler keeps one state per
\* user.  An update of a user goes to the first handler of group 0 that
\* matches it; register_user_handlers adds CommandHandler("start"), then
\* CommandHandler("cancel", cancel), then the conversation handler.  The
\* conversation handler tries its entry points first (allow_reentry), then
\* the handlers of the user's state, then the fallbacks, and takes the value
\* the handler returns as the new state.  The messages the handlers send
\* are not part of the model.

\* the subscription channels the admin can configure
GateChannelIds == ChannelIds \cup {"@news"}

\* what bot.get_chat_member gives for the user and one channel: a
\* ChatMember with its status and is_member, or an exception
Lookups ==
    {[raised |-> FALSE, status |-> st, is_member |-> FALSE] :
        st \in {"administrator", "member", "left"}}
    \cup {[raised |-> FALSE, status |-> "restricted", is_member |-> m] : m \in BOOLEAN}
    \cup {[raised |-> TRUE, status |-> None, is_member |-> FALSE]}

\* a gate that lets a user through who is in one of the channels
_ensure_subscription_AnyChannel(d, lookup) ==
    LET config == d.subscriptions
        found == SelectSeq(config.channels,
                     LAMBDA channel :
                         /\ Truthy(channel.id)
                         /\ ~lookup[channel.id].raised
                         /\ \/ lookup[channel.id].status \in {"creator", "administrator", "member"}
                            \/ lookup[channel.id].is_member)
    IN  IF ~config.enabled \/ config.channels = EmptyList THEN TRUE
        ELSE found # EmptyList

\* _ensure_subscription: TRUE when the gate is off or has no channel, else
\* whether no configured channel is missing
_ensure_subscription(d, lookup) ==
    LET config == d.subscriptions
        missing == SelectSeq(config.channels,
                       LAMBDA channel :
                           \/ ~Truthy(channel.id)
                           \/ lookup[channel.id].raised
                           \/ ~(\/ lookup[channel.id].status \in {"creator", "administrator", "member"}
                                \/ lookup[channel.id].is_member))
    IN  IF ~config.enabled \/ config.channels = EmptyList THEN TRUE
        ELSE missing = EmptyList

\* what a handler leaves: the store, whether it reached _persist, the
\* conversation of the user, and the purchase it created (0 for none)
\* with the quantity it passed and whether that was the default
Handled(d, persisted, conv, created, quantity, defaulted) ==
    [data |-> d, persisted |-> persisted, conv |-> conv, created |-> created,
     quantity |-> quantity, defaulted |-> defaulted]

Stay(d, conv) == Handled(d, FALSE, conv, 0, 0, FALSE)

\* user_data.pop(key, None)
PopKey(user_data, key) == [k \in (DOMAIN user_data) \ {key} |-> user_data[k]]

\* profile = await storage.get_user_profile(user_id);
\* profile.get("phone_number") if profile else None
ProfilePhone(d, user_id) ==
    IF user_id \in DOMAIN d.users THEN d.users[user_id].phone_number ELSE None

buy_ticket_entry(d, conv, lookup) ==
    LET entered == [conv EXCEPT !.validated = {}]
    IN  IF ~_ensure_subscription(d, lookup)
        THEN Stay(d, [entered EXCEPT !.state = "END"])
        ELSE IF remaining_tickets(d) = 0
        THEN Stay(d, [entered EXCEPT !.state = "END"])
        ELSE Stay(d, [entered EXCEPT !.state = "WAITING_QUANTITY"])

\* the texts a user sends as quantity: text.isdigit() and int(text)
QuantityTexts ==
    {[isdigit |-> FALSE, value |-> 0]}
    \cup {[isdigit |-> TRUE, value |-> n] : n \in 0..(NumTickets + 1)}

receive_quantity(d, conv, user_id, lookup, text) ==
    IF ~_ensure_subscription(d, lookup)
    THEN Stay(d, [conv EXCEPT !.state = "END"])
    ELSE
    LET remaining == remaining_tickets(d)
    IN  IF ~text.isdigit THEN Stay(d, [conv EXCEPT !.state = "WAITING_QUANTITY"])
        ELSE
        LET quantity == text.value
        IN  IF quantity < 1 \/ quantity > remaining
            THEN Stay(d, [conv EXCEPT !.state = "WAITING_QUANTITY"])
            ELSE
            LET payable == quantity * TicketPrice
                stored == Set(Set(conv.user_data, "quantity", quantity), "payable", payable)
                phone_number == ProfilePhone(d, user_id)
            IN  IF Truthy(phone_number)
                THEN Stay(d, [conv EXCEPT
                                !.state = "WAITING_RECEIPT",
                                !.user_data = Set(stored, "phone_number", phone_number),
                                !.validated = @ \cup {quantity},
                                !.cancelled = FALSE])
                ELSE Stay(d, [conv EXCEPT
                                !.state = "WAITING_CONTACT",
                                !.user_data = stored,
                                !.validated = @ \cup {quantity},
                                !.cancelled = FALSE])

\* the contact or the text a user sends as phone number: whether the
\* contact is another user's, and what _normalize_phone makes of the number
ContactMessages ==
    {[foreign |-> f, phone_number |-> ph] : f \in BOOLEAN, ph \in {None, "+998"}}

receive_contact(d, conv, user_id, contact) ==
    IF contact.foreign THEN Stay(d, [conv EXCEPT !.state = "WAITING_CONTACT"])
    ELSE IF ~Truthy(contact.phone_number)
    THEN Stay(d, [conv EXCEPT !.state = "WAITING_CONTACT"])
    ELSE LET out == register_user(d, user_id, UserName(user_id), FullName(user_id),
                                  contact.phone_number)
         IN  Handled(out.data, TRUE,
                     [conv EXCEPT
                        !.state = "WAITING_RECEIPT",
                        !.user_data = Set(@, "phone_number", contact.phone_number)],
                     0, 0, FALSE)

receive_receipt(d, conv, user_id, purchase_id) ==
    LET defaulted == "quantity" \notin DOMAIN conv.user_data
        quantity == IF defaulted THEN 1 ELSE conv.user_data.quantity
        popped == PopKey(conv.user_data, "quantity")
        phone_number ==
            IF "phone_number" \in DOMAIN popped /\ Truthy(popped.phone_number)
            THEN popped.phone_number
            ELSE ProfilePhone(d, user_id)
        registered == register_user(d, user_id, UserName(user_id), FullName(user_id),
                                    phone_number)
        created == create_pending_purchase(registered.data, purchase_id, user_id,
                                           UserName(user_id), FullName(user_id),
                                           phone_number, quantity, TicketPrice)
    IN  Handled(created.data, TRUE,
                [conv EXCEPT
                    !.state = "END",
                    !.user_data = PopKey(PopKey(popped, "phone_number"), "payable")],
                purchase_id, quantity, defaulted)

\* cancel, called with the value it returns to the conversation handler
cancel(d, conv) ==
    Stay(d, [conv EXCEPT
                !.state = "END",
                !.user_data = PopKey(PopKey(PopKey(@, "quantity"), "phone_number"),
                                     "payable"),
                !.cancelled = TRUE])

\* the answers of get_chat_member for the channels the gate asks about
ChannelLookups(d) ==
    [{d.subscriptions.channels[i].id : i \in 1..Len(d.subscriptions.channels)} -> Lookups]

\* a handler of the conversation has run for user u
Converse(u, res) ==
    /\ chat' = [chat EXCEPT ![u] = res.conv]
    /\ data' = res.data
    /\ disk' = IF res.persisted THEN _persist(res.data) ELSE disk

\* the buy button or /buy: an entry point, in every state
UserBuy(u) ==
    /\ \E lookup \in ChannelLookups(data) :
          Converse(u, buy_ticket_entry(data, chat[u], lookup))
    /\ UNCHANGED <<issued, lockVars, adminVars, backup, reader, modes>>

\* a text that is no command and no button, in WAITING_QUANTITY
UserQuantity(u) ==
    /\ chat[u].state = "WAITING_QUANTITY"
    /\ \E lookup \in ChannelLookups(data) : \E text \in QuantityTexts :
          Converse(u, receive_quantity(data, chat[u], u, lookup, text))
    /\ UNCHANGED <<issued, lockVars, adminVars, backup, reader, modes>>

\* a contact or a text, in WAITING_CONTACT
UserContact(u) ==
    /\ chat[u].state = "WAITING_CONTACT"
    /\ \E contact \in ContactMessages :
          Converse(u, receive_contact(data, chat[u], u, contact))
    /\ UNCHANGED <<issued, lockVars, adminVars, backup, reader, modes>>

\* a photo or a document, in WAITING_RECEIPT
UserReceipt(u) ==
    /\ chat[u].state = "WAITING_RECEIPT"
    /\ issued < MaxPurchases
    /\ Converse(u, receive_receipt(data, chat[u], u, uuid4))
    /\ issued' = issued + 1
    /\ UNCHANGED <<lockVars, adminVars, backup, reader, modes>>

\* the cancel button: a handler of each state of the conversation; outside
\* a conversation no handler takes it
UserCancelButton(u) ==
    /\ chat[u].state # "END"
    /\ Converse(u, cancel(data, chat[u]))
    /\ UNCHANGED <<issued, lockVars, adminVars, backup, reader, modes>>

\* /cancel: CommandHandler("cancel", cancel) stands before the
\* conversation handler in group 0 and takes the update, so cancel runs
\* outside the conversation: what it returns is dropped and the state of
\* the conversation stays
UserCancelCommand(u) ==
    /\ Converse(u, [cancel(data, chat[u]) EXCEPT !.conv.state = chat[u].state])
    /\ UNCHANGED <<issued, lockVars, adminVars, backup, reader, modes>>

\* the admin turns the gate on or off
GateSetEnabled ==
    /\ \E enabled \in BOOLEAN : Call(set_subscription_enabled(data, enabled))
    /\ UNCHANGED <<maintVars, issued, lockVars, adminVars>>

\* the admin adds a channel to the gate
GateAddChannel ==
    /\ \E ch \in GateChannelIds :
          Call(add_subscription_channel(data, ch, ChannelTitle(ch), ChannelLink(ch)))
    /\ UNCHANGED <<maintVars, issued, lockVars, adminVars>>

FlowNext ==
    \/ \E u \in Users :
          \/ UserBuy(u)
          \/ UserQuantity(u)
          \/ UserContact(u)
          \/ UserReceipt(u)
          \/ UserCancelButton(u)
          \/ UserCancelCommand(u)
    \/ ApprovePurchase

\* users in the buy conversation while the admin approves purchases
SpecFlow == Init /\ [][FlowNext]_vars

GateNext ==
    \/ \E u \in Users :
          \/ UserBuy(u)
          \/ UserQuantity(u)
          \/ UserCancelButton(u)
    \/ GateSetEnabled
    \/ GateAddChannel

\* users at the entry of the buy conversation while the admin sets the gate
SpecGate == Init /\ [][GateNext]_vars

\* ------------------------------------------------------------------- C35
\* receive_quantity stores a quantity only after it has validated it: the
\* text is a number q with 1 <= q <= remaining_tickets()
StoresValidated(u) ==
    \A lookup \in ChannelLookups(data) : \A text \in QuantityTexts :
        LET res == receive_quantity(data, chat[u], u, lookup, text)
        IN  res.conv.user_data # chat[u].user_data =>
                /\ text.isdigit
                /\ 1 <= text.value
                /\ text.value <= remaining_tickets(data)
                /\ res.conv.user_data.quantity = text.value
                /\ text.value \in res.conv.validated

\* the purchase receive_receipt is about to create for user u carries a
\* quantity of the user_data, not the default, accepted in this flow
CreatesValidated(u) ==
    LET res == receive_receipt(data, chat[u], u, uuid4)
    IN  /\ ~res.defaulted
        /\ res.quantity \in chat[u].validated
        /\ Get(res.data.pending, res.created).quantity = res.quantity
        /\ Get(res.data.pending, res.created).user_id = u

\* C35: every pending purchase the buy flow creates carries a quantity q
\* the same user entered and receive_quantity validated during that flow,
\* with 1 <= q <= remaining_tickets() at the moment of validation; the
\* flow never calls create_pending_purchase with an unvalidated or
\* defaulted quantity.
C35_QuantityValidated ==
    \A u \in Users :
        /\ chat[u].state = "WAITING_QUANTITY" => StoresValidated(u)
        /\ chat[u].state = "WAITING_RECEIPT" => CreatesValidated(u)

\* C35 (what does hold): the quantity is the validated one as long as the
\* cancel handler has not run since it was entered.
C35_ValidatedUnlessCancelled ==
    \A u \in Users :
        /\ chat[u].state = "WAITING_QUANTITY" => StoresValidated(u)
        /\ (chat[u].state = "WAITING_RECEIPT" /\ ~chat[u].cancelled) => CreatesValidated(u)

\* a purchase of the default quantity is pending although its buyer had a
\* larger quantity validated
C35_DefaultedPurchase ==
    \E u \in Users : \E id \in Keys(data.pending) :
        /\ Get(data.pending, id).user_id = u
        /\ Get(data.pending, id).quantity = 1
        /\ chat[u].validated # {}
        /\ 1 \notin chat[u].validated

\* ------------------------------------------------------------------- C36
\* a receipt of user u is taken by receive_receipt, which creates a purchase
ReceiptCreates(u) == chat[u].state = "WAITING_RECEIPT"

\* C36: cancelling exits the buy flow: after the cancel handler has run for
\* a user, by the cancel button or by /cancel, in any conversation state,
\* a receipt photo or document of that user creates no pending purchase
\* until the user has re-entered the flow and entered a quantity again.
C36_CancelExitsFlow ==
    \A u \in Users : chat[u].cancelled => ~ReceiptCreates(u)

\* C36 (what does hold): the cancel button ends the conversation, and so
\* does cancel wherever the conversation handler is the one that calls it.
C36_ButtonExits ==
    \A u \in Users :
        /\ cancel(data, chat[u]).conv.state = "END"
        /\ (chat[u].cancelled /\ ReceiptCreates(u)) =>
              "quantity" \notin DOMAIN chat[u].user_data

\* /cancel has run for a user who waits to send the receipt
C36_CancelledInFlow ==
    \E u \in Users : chat[u].cancelled /\ ReceiptCreates(u)

\* ------------------------------------------------------------------- C37
\* the gate is on: it is enabled and has a channel
GateOn(d) == d.subscriptions.enabled /\ d.subscriptions.channels # EmptyList

\* the user is a member of the channel: the lookup gave a ChatMember that
\* is creator, administrator or member, or has is_member set; a failed
\* lookup counts as not a member
IsMember(result) ==
    /\ ~result.raised
    /\ \/ result.status \in {"creator", "administrator", "member"}
       \/ result.is_member

MemberOfAll(d, lookup) == \A ch \in DOMAIN lookup : IsMember(lookup[ch])

\* C37: subscription gate: when the gate is enabled with at least one
\* channel, a user who is not a member of every configured channel cannot
\* start the buy flow or pass quantity entry: buy_ticket_entry and
\* receive_quantity end the conversation and store no quantity; when the
\* gate is disabled or has no channels the check always passes.
C37_SubscriptionGate ==
    \A u \in Users : \A lookup \in ChannelLookups(data) :
        /\ (GateOn(data) /\ ~MemberOfAll(data, lookup)) =>
              /\ ~_ensure_subscription(data, lookup)
              /\ buy_ticket_entry(data, chat[u], lookup).conv.state = "END"
              /\ \A text \in QuantityTexts :
                    LET res == receive_quantity(data, chat[u], u, lookup, text)
                    IN  /\ res.conv.state = "END"
                        /\ res.conv.user_data = chat[u].user_data
        /\ (GateOn(data) /\ MemberOfAll(data, lookup)) => _ensure_subscription(data, lookup)
        /\ ~GateOn(data) => _ensure_subscription(data, lookup)

\* the gate is on with two channels while a user is about to enter a
\* quantity and another is outside the conversation
C37_Witness ==
    /\ GateOn(data)
    /\ Len(data.subscriptions.channels) = 2
    /\ \E u \in Users : chat[u].state = "WAITING_QUANTITY"
    /\ \E u \in Users : chat[u].state = "END"

\* ------------------------------------------------------ admin input modes
\* The admin's input modes live in context.user_data, one key per flow.
\* A message of the admin that is not a command is offered to the handlers of
\* group 0 (the menu buttons) and then to the three input handlers of groups
\* 5, 6 and 7, each group handling the update on its own.  An update is
\* modelled as one step.
ModeKeys ==
    {"subscription_mode", "settings_mode", "broadcast_mode", "start_edit_mode",
     "game_info_edit_mode"}

\* the callback buttons that switch an input mode on, with the value they
\* store
ModeEntries ==
    {<<"settings_mode", "restore_backup">>,
     <<"settings_mode", "card_number">>,
     <<"settings_mode", "manager_contact">>,
     <<"subscription_mode", "add">>,
     <<"subscription_mode", "edit_message">>,
     <<"start_edit_mode", TRUE>>,
     <<"game_info_edit_mode", TRUE>>}

BroadcastButton == "Xabar yuborish"

\* What the admin sends.  A message carries its text as the string the
\* card and contact handlers store and as the template the message setters
\* parse, the chat that get_chat finds for the text (None: TelegramError),
\* the caption of a photo, and the uploaded document.
AdminMessage(kind, text, template, found, caption, upload) ==
    [kind |-> kind, text |-> text, template |-> template, found |-> found,
     caption |-> caption, upload |-> upload]
AdminMessages ==
    {AdminMessage("text", "@channel", <<Text("@channel")>>, "@channel", << >>, NoFile),
     AdminMessage("text", BroadcastButton, <<Text(BroadcastButton)>>, None, << >>, NoFile),
     AdminMessage("sticker", "", << >>, None, << >>, NoFile),
     AdminMessage("photo", "", << >>, None, <<Text("Sovrin: "), Field("prize", "")>>,
                  NoFile)}
    \cup {AdminMessage("document", "", << >>, None, << >>, upload) : upload \in Uploads}

\* an update on its way through the handler groups: the store, the state
\* file, user_data, the input flows that took the message as their input,
\* and what was sent to the users
Update(d, file, user_data) ==
    [data |-> d, disk |-> file, modes |-> user_data, consumed |-> {}, sent |-> {}]

\* a flow stored the message through a setter of the store and left its mode
Stored(up, out, key, flow) ==
    [up EXCEPT !.data = out.data,
               !.disk = IF out.persisted THEN _persist(out.data) ELSE up.disk,
               !.modes = PopKey(up.modes, key),
               !.consumed = @ \cup {flow}]

\* the admin's texts that start with "@"
StartsWithAt(text) == text \in {"@channel", "@boss"}

_resolve_channel(msg) ==
    IF msg.text = "" THEN None ELSE msg.found

admin_subscription_text_input(up, msg) ==
    LET mode == GetOr(up.modes, "subscription_mode", None)
    IN  CASE mode = "add" ->
                LET channel == _resolve_channel(msg)
                IN  IF channel = None THEN up
                    ELSE Stored(up, add_subscription_channel(up.data, channel,
                                        ChannelTitle(channel), ChannelLink(channel)),
                                "subscription_mode", "subscription_add")
          [] mode = "edit_message" ->
                IF msg.text = "" THEN up
                ELSE LET out == set_subscription_message(up.data, msg.template)
                     IN  IF out.raised THEN up
                         ELSE Stored(up, out, "subscription_mode", "subscription_edit")
          [] OTHER -> up

admin_settings_text_input(up, msg) ==
    LET mode == GetOr(up.modes, "settings_mode", None)
    IN  CASE mode = "card_number" ->
                IF msg.text = "" THEN up
                ELSE Stored(up, set_card_number(up.data, msg.text),
                            "settings_mode", "card_number")
          [] mode = "manager_contact" ->
                IF msg.text = "" THEN up
                ELSE LET contact == IF StartsWithAt(msg.text) THEN msg.text
                                    ELSE "@" \o msg.text
                     IN  Stored(up, set_manager_contact(up.data, contact),
                                "settings_mode", "manager_contact")
          [] OTHER -> up

\* list_user_ids
list_user_ids(d) == DOMAIN d.users

\* stamped: broadcast_ignore_message_id is the id of this very message
admin_broadcast_handle_content(up, msg, stamped) ==
    LET popped == [up EXCEPT !.modes = PopKey(@, "broadcast_ignore_message_id")]
        payload == IF msg.kind = "photo"
                   THEN [type |-> "photo", caption |-> msg.caption]
                   ELSE [type |-> "text", text |-> msg.text]
    IN  IF GetOr(up.modes, "broadcast_mode", None) # "awaiting_content" THEN up
        ELSE IF stamped THEN popped
        ELSE IF msg.kind # "photo" /\ msg.text = "" THEN popped
        ELSE IF list_user_ids(up.data) = {}
        THEN [popped EXCEPT !.modes = PopKey(@, "broadcast_mode")]
        ELSE [popped EXCEPT !.modes = PopKey(@, "broadcast_mode"),
                            !.consumed = @ \cup {"broadcast"},
                            !.sent = {payload}]

admin_start_message_handle_input(up, msg) ==
    LET text == IF msg.kind = "photo" THEN msg.caption ELSE msg.template
        media == IF msg.kind = "photo" THEN "photo" ELSE None
        out == set_start_message(up.data, text, media)
    IN  IF ~GetOr(up.modes, "start_edit_mode", FALSE) THEN up
        ELSE IF text = << >> THEN up
        ELSE IF out.raised THEN up
        ELSE Stored(up, out, "start_edit_mode", "start_edit")

admin_game_info_message_handle_input(up, msg) ==
    LET out == set_game_info_message(up.data, msg.template)
    IN  IF ~GetOr(up.modes, "game_info_edit_mode", FALSE) THEN up
        ELSE IF msg.text = "" THEN up
        ELSE IF out.raised THEN up
        ELSE Stored(up, out, "game_info_edit_mode", "game_info_edit")

\* admin_settings_handle_restore on a message of the admin
HandleRestore(up, msg) ==
    IF msg.kind # "document" THEN up
    ELSE LET res == admin_settings_handle_restore(up.data, up.disk,
                                                  "restore_backup", msg.upload)
         IN  IF res.reply.kind # "restored" THEN up
             ELSE [up EXCEPT !.data = res.data, !.disk = res.disk,
                             !.modes = PopKey(@, "settings_mode"),
                             !.consumed = @ \cup {"restore_backup"}]

admin_active_mode_router(up, msg, stamped) ==
    CASE GetOr(up.modes, "broadcast_mode", None) = "awaiting_content" ->
            admin_broadcast_handle_content(up, msg, stamped)
      [] GetOr(up.modes, "start_edit_mode", FALSE) ->
            admin_start_message_handle_input(up, msg)
      [] GetOr(up.modes, "game_info_edit_mode", FALSE) ->
            admin_game_info_message_handle_input(up, msg)
      [] GetOr(up.modes, "settings_mode", None) = "restore_backup" ->
            HandleRestore(up, msg)
      [] OTHER -> up

\* does the menu button of this message switch broadcast mode on
EntersBroadcast(user_data, msg) ==
    /\ msg.text = BroadcastButton
    /\ GetOr(user_data, "broadcast_mode", None) # "awaiting_content"

admin_broadcast_entry(up, msg) ==
    IF EntersBroadcast(up.modes, msg)
    THEN [up EXCEPT !.modes = Set(Set(@, "broadcast_mode", "awaiting_content"),
                                  "broadcast_ignore_message_id", "message_id")]
    ELSE up

\* register_admin_handlers: one message of the admin goes through group 0
\* and then through the input handlers of groups 5, 6 and 7
Dispatch(d, file, user_data, msg) ==
    LET group0 == admin_broadcast_entry(Update(d, file, user_data), msg)
        group5 == admin_subscription_text_input(group0, msg)
        group6 == admin_settings_text_input(group5, msg)
    IN  admin_active_mode_router(group6, msg, EntersBroadcast(user_data, msg))

\* a callback button that switches an input mode on
AdminEnterMode ==
    \E entry \in ModeEntries :
        /\ modes' = Set(modes, entry[1], entry[2])
        /\ UNCHANGED <<chat, backup, reader, storeVars, lockVars, adminVars>>

\* the "Bekor qilish" button of one flow
AdminCancelInput ==
    \E key \in ModeKeys :
        /\ key \in DOMAIN modes
        /\ modes' = IF key = "broadcast_mode"
                    THEN PopKey(PopKey(modes, key), "broadcast_ignore_message_id")
                    ELSE PopKey(modes, key)
        /\ UNCHANGED <<chat, backup, reader, storeVars, lockVars, adminVars>>

\* /cancel of the admin
AdminCancel ==
    /\ modes # NoModes
    /\ modes' = [k \in (DOMAIN modes) \ ModeKeys |-> modes[k]]
    /\ UNCHANGED <<chat, backup, reader, storeVars, lockVars, adminVars>>

\* a message of the admin that is not a command
AdminSends ==
    \E msg \in AdminMessages :
        LET up == Dispatch(data, disk, modes, msg)
        IN  /\ data' = up.data
            /\ disk' = up.disk
            /\ modes' = up.modes
            /\ UNCHANGED <<chat, backup, reader, issued, lockVars, adminVars>>

ModesNext ==
    \/ AdminEnterMode
    \/ AdminCancelInput
    \/ AdminCancel
    \/ AdminSends

\* the store that an earlier run left behind, its purchase holding the
\* tickets 1..MaxQty
ModesInit ==
    /\ RestartInit
    /\ Get(data.approved, 0).tickets = [i \in 1..MaxQty |-> i]

\* the admin's input flows.  No backup is taken here, so the documents the
\* admin uploads in restore mode are the ones restore refuses.
SpecModes == ModesInit /\ [][ModesNext]_vars

\* ------------------------------------------------------------------- C38
\* C38: one admin message changes at most one setting: whatever input modes
\* the admin has entered, a message is taken as input by at most one of the
\* input flows, so it never updates two configuration values and never both
\* changes the configuration and goes out as a broadcast
C38_OneMessageOneSetting ==
    \A msg \in AdminMessages :
        Cardinality(Dispatch(data, disk, modes, msg).consumed) <= 1

\* what holds: each of the three handler groups takes the message for at
\* most one flow, and with a single mode on a single flow takes it
C38_OnePerGroup ==
    \A msg \in AdminMessages :
        LET consumed == Dispatch(data, disk, modes, msg).consumed
        IN  /\ Cardinality(consumed \cap {"subscription_add", "subscription_edit"}) <= 1
            /\ Cardinality(consumed \cap {"card_number", "manager_contact"}) <= 1
            /\ Cardinality(consumed \cap {"broadcast", "start_edit", "game_info_edit",
                                          "restore_backup"}) <= 1
            /\ Cardinality(DOMAIN modes) <= 1 => Cardinality(consumed) <= 1

\* a card number and a broadcast are both awaited, and one text is stored
\* as the card number and sent to the users
C38_CardAndBroadcast ==
    /\ GetOr(modes, "settings_mode", None) = "card_number"
    /\ GetOr(modes, "broadcast_mode", None) = "awaiting_content"
    /\ \E msg \in AdminMessages :
          LET up == Dispatch(data, disk, modes, msg)
          IN  /\ up.consumed = {"card_number", "broadcast"}
              /\ up.data.meta.card_number = msg.text
              /\ up.sent = {[type |-> "text", text |-> msg.text]}

====
